---------------------------- MODULE Spec2Model ----------------------------
(***************************************************************************)
(* Quantity precision resolution of the AsterDEX client: the learned       *)
(* precision cache (PrecisionManager), the static step size registry, the  *)
(* quantity rounding, and the retry flow of placeMarketOrderSmart and      *)
(* handlePrecisionError.                                                   *)
(*                                                                         *)
(* JavaScript numbers are binary floating point.  Quantities are modelled  *)
(* as binary floating point values <<m, e>> (value m * 2^e) with a         *)
(* MantBits-bit significand and round-to-nearest-even, the IEEE-754        *)
(* arithmetic of the engine at a reduced significand width.  Symbols and   *)
(* step sizes are JavaScript strings, modelled as sequences of characters. *)
(***************************************************************************)
EXTENDS Integers, Sequences, FiniteSets, TLC

\* ------------------------------------------------------------------------
\* Bounds of the model
\* ------------------------------------------------------------------------

\* width of the floating point significand (53 in the engine)
MantBits == 12

\* number of operations (calls of the public API) started in one behaviour
MaxCalls == 2

\* ------------------------------------------------------------------------
\* Floating point arithmetic (IEEE-754 round-to-nearest-even)
\* ------------------------------------------------------------------------

RECURSIVE Pow2(_)
Pow2(n) == IF n <= 0 THEN 1 ELSE 2 * Pow2(n - 1)

RECURSIVE Pow10(_)
Pow10(n) == IF n <= 0 THEN 1 ELSE 10 * Pow10(n - 1)

FlZero == <<0, 0>>

\* the exponent e with 2^(MantBits-1) <= num / (den * 2^e) < 2^MantBits
RECURSIVE FlExponent(_, _, _)
FlExponent(num, den, e) ==
  IF num >= den * Pow2(MantBits) THEN FlExponent(num, den * 2, e + 1)
  ELSE IF num < den * Pow2(MantBits - 1) THEN FlExponent(num * 2, den, e - 1)
  ELSE e

\* round half to even of the rational num / den
RoundHalfEven(num, den) ==
  LET q == num \div den
      r == num % den
  IN  IF 2 * r > den \/ (2 * r = den /\ q % 2 = 1) THEN q + 1 ELSE q

\* the floating point value nearest to the rational num / den (num >= 0, den > 0)
FlRound(num, den) ==
  IF num = 0 THEN FlZero
  ELSE LET e == FlExponent(num, den, 0)
           m == IF e >= 0 THEN RoundHalfEven(num, den * Pow2(e))
                          ELSE RoundHalfEven(num * Pow2(-e), den)
       IN  IF m = Pow2(MantBits) THEN <<Pow2(MantBits - 1), e + 1>> ELSE <<m, e>>

FlScale(a, k) == IF a[1] = 0 THEN FlZero ELSE <<a[1], a[2] + k>>

\* a * b and a / b, correctly rounded
FlMul(a, b) == FlScale(FlRound(a[1] * b[1], 1), a[2] + b[2])
FlDiv(a, b) == FlScale(FlRound(a[1], b[1]), a[2] - b[2])

\* Math.floor
FlFloor(a) ==
  IF a[2] >= 0 THEN a
  ELSE IF -a[2] >= MantBits THEN FlZero
  ELSE FlRound(a[1] \div Pow2(-a[2]), 1)

\* exact comparison of two floating point values
FlLeq(a, b) ==
  IF a[1] = 0 THEN TRUE
  ELSE IF b[1] = 0 THEN FALSE
  ELSE IF a[2] - b[2] >= MantBits THEN FALSE
  ELSE IF b[2] - a[2] >= MantBits THEN TRUE
  ELSE IF a[2] >= b[2] THEN a[1] * Pow2(a[2] - b[2]) <= b[1]
  ELSE a[1] <= b[1] * Pow2(b[2] - a[2])

\* the largest floating point value below a (a > 0)
FlPrev(a) ==
  IF a[1] = Pow2(MantBits - 1) THEN <<Pow2(MantBits) - 1, a[2] - 1>>
  ELSE <<a[1] - 1, a[2]>>

\* the number literal n / 10^d
Num(n, d) == FlRound(n, Pow10(d))

\* ------------------------------------------------------------------------
\* Strings
\* ------------------------------------------------------------------------

LowerCase == <<"a","b","c","d","e","f","g","h","i","j","k","l","m",
               "n","o","p","q","r","s","t","u","v","w","x","y","z">>
UpperCase == <<"A","B","C","D","E","F","G","H","I","J","K","L","M",
               "N","O","P","Q","R","S","T","U","V","W","X","Y","Z">>

UpperChar(c) ==
  IF \E i \in 1..26 : LowerCase[i] = c
  THEN UpperCase[CHOOSE i \in 1..26 : LowerCase[i] = c]
  ELSE c

\* String.prototype.toUpperCase
toUpperCase(s) == [i \in 1..Len(s) |-> UpperChar(s[i])]

LowerChar(c) ==
  IF \E i \in 1..26 : UpperCase[i] = c
  THEN LowerCase[CHOOSE i \in 1..26 : UpperCase[i] = c]
  ELSE c

\* the strings that differ from s only in the case of their letters
RECURSIVE CaseVariants(_)
CaseVariants(s) ==
  IF s = <<>> THEN {<<>>}
  ELSE {<<c>> \o t : c \in {LowerChar(s[1]), UpperChar(s[1])}, t \in CaseVariants(Tail(s))}

\* String.prototype.includes
includes(s, sub) ==
  \E i \in 1..(Len(s) - Len(sub) + 1) : SubSeq(s, i, i + Len(sub) - 1) = sub

Digits == <<"0","1","2","3","4","5","6","7","8","9">>
IsDigit(c) == \E i \in 1..10 : Digits[i] = c
DigitVal(c) == (CHOOSE i \in 1..10 : Digits[i] = c) - 1

\* ------------------------------------------------------------------------
\* Symbol metadata registry (step-size-database.js)
\* ------------------------------------------------------------------------

STEP_SIZE_DATABASE ==
  <<
    [symbol |-> <<"B","T","C","U","S","D","T">>,
     stepSize |-> <<"0",".","0","0","1">>, precision |-> 3,
     minQty |-> <<"0",".","0","0","1">>, maxQty |-> <<"1","0","0","0">>],
    [symbol |-> <<"E","T","H","U","S","D","T">>,
     stepSize |-> <<"0",".","0","0","1">>, precision |-> 3,
     minQty |-> <<"0",".","0","0","1">>, maxQty |-> <<"1","0","0","0","0">>],
    [symbol |-> <<"L","T","C","U","S","D","T">>,
     stepSize |-> <<"0",".","0","0","1">>, precision |-> 3,
     minQty |-> <<"0",".","0","0","1">>, maxQty |-> <<"1","0","0","0","0">>],
    [symbol |-> <<"B","C","H","U","S","D","T">>,
     stepSize |-> <<"0",".","0","0","1">>, precision |-> 3,
     minQty |-> <<"0",".","0","0","1">>, maxQty |-> <<"1","0","0","0","0">>],
    [symbol |-> <<"E","T","C","U","S","D","T">>,
     stepSize |-> <<"0",".","0","0","1">>, precision |-> 3,
     minQty |-> <<"0",".","0","0","1">>, maxQty |-> <<"1","0","0","0","0">>],
    [symbol |-> <<"T","R","X","U","S","D","T">>,
     stepSize |-> <<"0",".","0","0","1">>, precision |-> 3,
     minQty |-> <<"0",".","0","0","1">>, maxQty |-> <<"1","0","0","0","0">>],
    [symbol |-> <<"L","I","N","K","U","S","D","T">>,
     stepSize |-> <<"0",".","0","0","1">>, precision |-> 3,
     minQty |-> <<"0",".","0","0","1">>, maxQty |-> <<"1","0","0","0","0">>],
    [symbol |-> <<"U","N","I","U","S","D","T">>,
     stepSize |-> <<"0",".","0","0","1">>, precision |-> 3,
     minQty |-> <<"0",".","0","0","1">>, maxQty |-> <<"1","0","0","0","0">>],
    [symbol |-> <<"A","T","O","M","U","S","D","T">>,
     stepSize |-> <<"0",".","0","0","1">>, precision |-> 3,
     minQty |-> <<"0",".","0","0","1">>, maxQty |-> <<"1","0","0","0","0">>],
    [symbol |-> <<"N","E","A","R","U","S","D","T">>,
     stepSize |-> <<"0",".","0","0","1">>, precision |-> 3,
     minQty |-> <<"0",".","0","0","1">>, maxQty |-> <<"1","0","0","0","0">>],
    [symbol |-> <<"F","T","M","U","S","D","T">>,
     stepSize |-> <<"0",".","0","0","1">>, precision |-> 3,
     minQty |-> <<"0",".","0","0","1">>, maxQty |-> <<"1","0","0","0","0">>],
    [symbol |-> <<"A","L","G","O","U","S","D","T">>,
     stepSize |-> <<"0",".","0","0","1">>, precision |-> 3,
     minQty |-> <<"0",".","0","0","1">>, maxQty |-> <<"1","0","0","0","0">>],
    [symbol |-> <<"V","E","T","U","S","D","T">>,
     stepSize |-> <<"0",".","0","0","1">>, precision |-> 3,
     minQty |-> <<"0",".","0","0","1">>, maxQty |-> <<"1","0","0","0","0">>],
    [symbol |-> <<"I","C","P","U","S","D","T">>,
     stepSize |-> <<"0",".","0","0","1">>, precision |-> 3,
     minQty |-> <<"0",".","0","0","1">>, maxQty |-> <<"1","0","0","0","0">>],
    [symbol |-> <<"F","I","L","U","S","D","T">>,
     stepSize |-> <<"0",".","0","0","1">>, precision |-> 3,
     minQty |-> <<"0",".","0","0","1">>, maxQty |-> <<"1","0","0","0","0">>],
    [symbol |-> <<"A","P","T","U","S","D","T">>,
     stepSize |-> <<"0",".","0","0","1">>, precision |-> 3,
     minQty |-> <<"0",".","0","0","1">>, maxQty |-> <<"1","0","0","0","0">>],
    [symbol |-> <<"S","U","I","U","S","D","T">>,
     stepSize |-> <<"0",".","0","0","1">>, precision |-> 3,
     minQty |-> <<"0",".","0","0","1">>, maxQty |-> <<"1","0","0","0","0">>],
    [symbol |-> <<"A","R","B","U","S","D","T">>,
     stepSize |-> <<"0",".","0","0","1">>, precision |-> 3,
     minQty |-> <<"0",".","0","0","1">>, maxQty |-> <<"1","0","0","0","0">>],
    [symbol |-> <<"O","P","U","S","D","T">>,
     stepSize |-> <<"0",".","0","0","1">>, precision |-> 3,
     minQty |-> <<"0",".","0","0","1">>, maxQty |-> <<"1","0","0","0","0">>],
    [symbol |-> <<"I","N","J","U","S","D","T">>,
     stepSize |-> <<"0",".","0","0","1">>, precision |-> 3,
     minQty |-> <<"0",".","0","0","1">>, maxQty |-> <<"1","0","0","0","0">>],
    [symbol |-> <<"S","E","I","U","S","D","T">>,
     stepSize |-> <<"0",".","0","0","1">>, precision |-> 3,
     minQty |-> <<"0",".","0","0","1">>, maxQty |-> <<"1","0","0","0","0">>],
    [symbol |-> <<"T","I","A","U","S","D","T">>,
     stepSize |-> <<"0",".","0","0","1">>, precision |-> 3,
     minQty |-> <<"0",".","0","0","1">>, maxQty |-> <<"1","0","0","0","0">>],
    [symbol |-> <<"W","L","D","U","S","D","T">>,
     stepSize |-> <<"0",".","0","0","1">>, precision |-> 3,
     minQty |-> <<"0",".","0","0","1">>, maxQty |-> <<"1","0","0","0","0">>],
    [symbol |-> <<"P","E","N","D","L","E","U","S","D","T">>,
     stepSize |-> <<"0",".","0","0","1">>, precision |-> 3,
     minQty |-> <<"0",".","0","0","1">>, maxQty |-> <<"1","0","0","0","0">>],
    [symbol |-> <<"J","U","P","U","S","D","T">>,
     stepSize |-> <<"0",".","0","0","1">>, precision |-> 3,
     minQty |-> <<"0",".","0","0","1">>, maxQty |-> <<"1","0","0","0","0">>],
    [symbol |-> <<"W","U","S","D","T">>,
     stepSize |-> <<"0",".","0","0","1">>, precision |-> 3,
     minQty |-> <<"0",".","0","0","1">>, maxQty |-> <<"1","0","0","0","0">>],
    [symbol |-> <<"B","O","M","E","U","S","D","T">>,
     stepSize |-> <<"0",".","0","0","1">>, precision |-> 3,
     minQty |-> <<"0",".","0","0","1">>, maxQty |-> <<"1","0","0","0","0">>],
    [symbol |-> <<"B","O","N","K","U","S","D","T">>,
     stepSize |-> <<"0",".","0","0","1">>, precision |-> 3,
     minQty |-> <<"0",".","0","0","1">>, maxQty |-> <<"1","0","0","0","0">>],
    [symbol |-> <<"W","I","F","U","S","D","T">>,
     stepSize |-> <<"0",".","0","0","1">>, precision |-> 3,
     minQty |-> <<"0",".","0","0","1">>, maxQty |-> <<"1","0","0","0","0">>],
    [symbol |-> <<"P","O","P","C","A","T","U","S","D","T">>,
     stepSize |-> <<"0",".","0","0","1">>, precision |-> 3,
     minQty |-> <<"0",".","0","0","1">>, maxQty |-> <<"1","0","0","0","0">>],
    [symbol |-> <<"M","Y","R","O","U","S","D","T">>,
     stepSize |-> <<"0",".","0","0","1">>, precision |-> 3,
     minQty |-> <<"0",".","0","0","1">>, maxQty |-> <<"1","0","0","0","0">>],
    [symbol |-> <<"F","L","O","K","I","U","S","D","T">>,
     stepSize |-> <<"0",".","0","0","1">>, precision |-> 3,
     minQty |-> <<"0",".","0","0","1">>, maxQty |-> <<"1","0","0","0","0">>],
    [symbol |-> <<"P","E","P","E","U","S","D","T">>,
     stepSize |-> <<"0",".","0","0","1">>, precision |-> 3,
     minQty |-> <<"0",".","0","0","1">>, maxQty |-> <<"1","0","0","0","0">>],
    [symbol |-> <<"S","H","I","B","U","S","D","T">>,
     stepSize |-> <<"0",".","0","0","1">>, precision |-> 3,
     minQty |-> <<"0",".","0","0","1">>, maxQty |-> <<"1","0","0","0","0">>],
    [symbol |-> <<"D","O","G","E","U","S","D","T">>,
     stepSize |-> <<"1">>, precision |-> 0,
     minQty |-> <<"1">>, maxQty |-> <<"1","0","0","0","0","0","0","0">>],
    [symbol |-> <<"A","D","A","U","S","D","T">>,
     stepSize |-> <<"1">>, precision |-> 0,
     minQty |-> <<"1">>, maxQty |-> <<"1","0","0","0","0","0","0","0">>],
    [symbol |-> <<"A","V","A","X","U","S","D","T">>,
     stepSize |-> <<"1">>, precision |-> 0,
     minQty |-> <<"1">>, maxQty |-> <<"3","0","0","0","0","0">>],
    [symbol |-> <<"D","O","T","U","S","D","T">>,
     stepSize |-> <<"1">>, precision |-> 0,
     minQty |-> <<"1">>, maxQty |-> <<"1","0","0","0","0","0","0">>],
    [symbol |-> <<"M","A","T","I","C","U","S","D","T">>,
     stepSize |-> <<"1">>, precision |-> 0,
     minQty |-> <<"1">>, maxQty |-> <<"1","0","0","0","0","0","0">>],
    [symbol |-> <<"S","O","L","U","S","D","T">>,
     stepSize |-> <<"0",".","0","1">>, precision |-> 2,
     minQty |-> <<"0",".","0","1">>, maxQty |-> <<"1","0","0","0","0","0","0">>],
    [symbol |-> <<"B","N","B","U","S","D","T">>,
     stepSize |-> <<"0",".","0","1">>, precision |-> 2,
     minQty |-> <<"0",".","0","1">>, maxQty |-> <<"1","0","0","0","0","0">>],
    [symbol |-> <<"X","R","P","U","S","D","T">>,
     stepSize |-> <<"0",".","1">>, precision |-> 1,
     minQty |-> <<"0",".","1">>, maxQty |-> <<"1","0","0","0","0","0","0">>],
    [symbol |-> <<"A","S","T","E","R","U","S","D","T">>,
     stepSize |-> <<"0",".","0","1">>, precision |-> 2,
     minQty |-> <<"0",".","0","1">>, maxQty |-> <<"2","0","0","0","0","0","0">>],
    [symbol |-> <<"U","S","D","C","U","S","D","T">>,
     stepSize |-> <<"0",".","0","1">>, precision |-> 2,
     minQty |-> <<"0",".","0","1">>, maxQty |-> <<"1","0","0","0","0","0","0">>],
    [symbol |-> <<"U","S","D","T","U","S","D","T">>,
     stepSize |-> <<"0",".","0","1">>, precision |-> 2,
     minQty |-> <<"0",".","0","1">>, maxQty |-> <<"1","0","0","0","0","0","0">>],
    [symbol |-> <<"B","U","S","D","U","S","D","T">>,
     stepSize |-> <<"0",".","0","1">>, precision |-> 2,
     minQty |-> <<"0",".","0","1">>, maxQty |-> <<"1","0","0","0","0","0","0">>],
    [symbol |-> <<"T","U","S","D","U","S","D","T">>,
     stepSize |-> <<"0",".","0","1">>, precision |-> 2,
     minQty |-> <<"0",".","0","1">>, maxQty |-> <<"1","0","0","0","0","0","0">>],
    [symbol |-> <<"U","S","D","D","U","S","D","T">>,
     stepSize |-> <<"0",".","0","1">>, precision |-> 2,
     minQty |-> <<"0",".","0","1">>, maxQty |-> <<"1","0","0","0","0","0","0">>],
    [symbol |-> <<"F","D","U","S","D","U","S","D","T">>,
     stepSize |-> <<"0",".","0","1">>, precision |-> 2,
     minQty |-> <<"0",".","0","1">>, maxQty |-> <<"1","0","0","0","0","0","0">>],
    [symbol |-> <<"T","U","S","D","T","U","S","D","T">>,
     stepSize |-> <<"0",".","0","1">>, precision |-> 2,
     minQty |-> <<"0",".","0","1">>, maxQty |-> <<"1","0","0","0","0","0","0">>],
    [symbol |-> <<"U","S","D","F","U","S","D","T">>,
     stepSize |-> <<"0",".","0","1">>, precision |-> 2,
     minQty |-> <<"0",".","0","1">>, maxQty |-> <<"1","0","0","0","0","0","0">>],
    [symbol |-> <<"U","S","D","C","E","U","S","D","T">>,
     stepSize |-> <<"0",".","0","1">>, precision |-> 2,
     minQty |-> <<"0",".","0","1">>, maxQty |-> <<"1","0","0","0","0","0","0">>],
    [symbol |-> <<"U","S","D","B","C","U","S","D","T">>,
     stepSize |-> <<"0",".","0","1">>, precision |-> 2,
     minQty |-> <<"0",".","0","1">>, maxQty |-> <<"1","0","0","0","0","0","0">>],
    [symbol |-> <<"U","S","D","1","U","S","D","T">>,
     stepSize |-> <<"0",".","0","1">>, precision |-> 2,
     minQty |-> <<"0",".","0","1">>, maxQty |-> <<"1","0","0","0","0","0","0">>],
    [symbol |-> <<"V","U","S","D","T","U","S","D","T">>,
     stepSize |-> <<"0",".","0","1">>, precision |-> 2,
     minQty |-> <<"0",".","0","1">>, maxQty |-> <<"1","0","0","0","0","0","0">>],
    [symbol |-> <<"C","U","S","D","T","U","S","D","T">>,
     stepSize |-> <<"0",".","0","1">>, precision |-> 2,
     minQty |-> <<"0",".","0","1">>, maxQty |-> <<"1","0","0","0","0","0","0">>],
    [symbol |-> <<"L","I","S","U","S","D","U","S","D","T">>,
     stepSize |-> <<"0",".","0","1">>, precision |-> 2,
     minQty |-> <<"0",".","0","1">>, maxQty |-> <<"1","0","0","0","0","0","0">>],
    [symbol |-> <<"B","O","N","U","S","U","S","D","U","S","D","T">>,
     stepSize |-> <<"0",".","0","1">>, precision |-> 2,
     minQty |-> <<"0",".","0","1">>, maxQty |-> <<"1","0","0","0","0","0","0">>],
    [symbol |-> <<"C","D","L","U","S","D","T">>,
     stepSize |-> <<"0",".","0","1">>, precision |-> 2,
     minQty |-> <<"0",".","0","1">>, maxQty |-> <<"1","0","0","0","0","0","0">>],
    [symbol |-> <<"T","W","T","U","S","D","T">>,
     stepSize |-> <<"0",".","0","1">>, precision |-> 2,
     minQty |-> <<"0",".","0","1">>, maxQty |-> <<"1","0","0","0","0","0","0">>],
    [symbol |-> <<"F","O","R","M","U","S","D","T">>,
     stepSize |-> <<"0",".","0","1">>, precision |-> 2,
     minQty |-> <<"0",".","0","1">>, maxQty |-> <<"1","0","0","0","0","0","0">>],
    [symbol |-> <<"L","I","S","T","A","U","S","D","T">>,
     stepSize |-> <<"0",".","0","1">>, precision |-> 2,
     minQty |-> <<"0",".","0","1">>, maxQty |-> <<"1","0","0","0","0","0","0">>],
    [symbol |-> <<"J","L","P","U","S","D","T">>,
     stepSize |-> <<"0",".","0","1">>, precision |-> 2,
     minQty |-> <<"0",".","0","1">>, maxQty |-> <<"1","0","0","0","0","0","0">>],
    [symbol |-> <<"S","T","O","N","E","U","S","D","T">>,
     stepSize |-> <<"0",".","0","1">>, precision |-> 2,
     minQty |-> <<"0",".","0","1">>, maxQty |-> <<"1","0","0","0","0","0","0">>],
    [symbol |-> <<"R","S","E","T","H","U","S","D","T">>,
     stepSize |-> <<"0",".","0","1">>, precision |-> 2,
     minQty |-> <<"0",".","0","1">>, maxQty |-> <<"1","0","0","0","0","0","0">>],
    [symbol |-> <<"W","B","E","T","H","U","S","D","T">>,
     stepSize |-> <<"0",".","0","1">>, precision |-> 2,
     minQty |-> <<"0",".","0","1">>, maxQty |-> <<"1","0","0","0","0","0","0">>],
    [symbol |-> <<"A","S","B","N","B","U","S","D","T">>,
     stepSize |-> <<"0",".","0","1">>, precision |-> 2,
     minQty |-> <<"0",".","0","1">>, maxQty |-> <<"1","0","0","0","0","0","0">>],
    [symbol |-> <<"S","L","I","S","B","N","B","U","S","D","T">>,
     stepSize |-> <<"0",".","0","1">>, precision |-> 2,
     minQty |-> <<"0",".","0","1">>, maxQty |-> <<"1","0","0","0","0","0","0">>],
    [symbol |-> <<"F","B","T","C","U","S","D","T">>,
     stepSize |-> <<"0",".","0","1">>, precision |-> 2,
     minQty |-> <<"0",".","0","1">>, maxQty |-> <<"1","0","0","0","0","0","0">>],
    [symbol |-> <<"S","O","L","V","B","T","C","U","S","D","T">>,
     stepSize |-> <<"0",".","0","1">>, precision |-> 2,
     minQty |-> <<"0",".","0","1">>, maxQty |-> <<"1","0","0","0","0","0","0">>],
    [symbol |-> <<"P","U","M","P","B","T","C","U","S","D","T">>,
     stepSize |-> <<"0",".","0","1">>, precision |-> 2,
     minQty |-> <<"0",".","0","1">>, maxQty |-> <<"1","0","0","0","0","0","0">>],
    [symbol |-> <<"C","A","K","E","U","S","D","T">>,
     stepSize |-> <<"0",".","0","1">>, precision |-> 2,
     minQty |-> <<"0",".","0","1">>, maxQty |-> <<"1","0","0","0","0","0","0">>]
  >>
DatabaseIndex(key) == {i \in 1..Len(STEP_SIZE_DATABASE) : STEP_SIZE_DATABASE[i].symbol = key}

\* a lookup by the symbol as given
getStepSizeInfo_CaseSensitive(symbol) ==
  {STEP_SIZE_DATABASE[i] : i \in DatabaseIndex(symbol)}

\* STEP_SIZE_DATABASE[symbol.toUpperCase()] || null : the set holding the entry, or {}
getStepSizeInfo(symbol) ==
  {STEP_SIZE_DATABASE[i] : i \in DatabaseIndex(toUpperCase(symbol))}

\* a lookup that answers with the default and never reads the entry
getPrecisionFromDatabase_DefaultTwo(symbol) == 2

getPrecisionFromDatabase(symbol) ==
  LET info == getStepSizeInfo(symbol)
  IN  IF info /= {} THEN (CHOOSE e \in info : TRUE).precision ELSE 2

getStepSizeFromDatabase(symbol) ==
  LET info == getStepSizeInfo(symbol)
  IN  IF info /= {} THEN (CHOOSE e \in info : TRUE).stepSize ELSE <<>>

isSymbolInDatabase(symbol) == DatabaseIndex(toUpperCase(symbol)) /= {}

\* ------------------------------------------------------------------------
\* PrecisionManager (precision-manager.js): pure parts
\* ------------------------------------------------------------------------

\* if (this.precisionCache[symbol]) : a missing entry and the entry 0 are falsy
CacheHit(cache, symbol) == symbol \in DOMAIN cache /\ cache[symbol] /= 0

\* substring rules that test XRP before BTC and ETH
PatternPrecision_XrpFirst(symbol) ==
  LET symbolUpper == toUpperCase(symbol)
  IN  IF includes(symbolUpper, <<"X","R","P">>)
      THEN 1
      ELSE IF includes(symbolUpper, <<"B","T","C">>) \/ includes(symbolUpper, <<"E","T","H">>)
      THEN 3
      ELSE IF \/ includes(symbolUpper, <<"A","S","T","E","R">>)
              \/ includes(symbolUpper, <<"S","O","L">>)
              \/ includes(symbolUpper, <<"B","N","B">>)
      THEN 2
      ELSE IF \/ includes(symbolUpper, <<"A","D","A">>)
              \/ includes(symbolUpper, <<"D","O","G","E">>)
              \/ includes(symbolUpper, <<"A","V","A","X">>)
      THEN 0
      ELSE 2

\* the substring rules of getPrecision, applied to the uppercased symbol
PatternPrecision(symbol) ==
  LET symbolUpper == toUpperCase(symbol)
  IN  IF includes(symbolUpper, <<"B","T","C">>) \/ includes(symbolUpper, <<"E","T","H">>)
      THEN 3
      ELSE IF \/ includes(symbolUpper, <<"A","S","T","E","R">>)
              \/ includes(symbolUpper, <<"S","O","L">>)
              \/ includes(symbolUpper, <<"B","N","B">>)
      THEN 2
      ELSE IF includes(symbolUpper, <<"X","R","P">>)
      THEN 1
      ELSE IF \/ includes(symbolUpper, <<"A","D","A">>)
              \/ includes(symbolUpper, <<"D","O","G","E">>)
              \/ includes(symbolUpper, <<"A","V","A","X">>)
      THEN 0
      ELSE 2

getPrecision(cache, symbol) ==
  IF CacheHit(cache, symbol) THEN cache[symbol]
  ELSE IF isSymbolInDatabase(symbol) THEN getPrecisionFromDatabase(symbol)
  ELSE PatternPrecision(symbol)

\* an assignment that only adds entries and never overwrites one
CacheStore_KeepExisting(cache, symbol, precision) ==
  IF symbol \in DOMAIN cache THEN cache
  ELSE [s \in DOMAIN cache \cup {symbol} |-> IF s = symbol THEN precision ELSE cache[s]]

\* an assignment of a fresh object that holds the one entry
CacheStore_OnlyEntry(cache, symbol, precision) ==
  [s \in {symbol} |-> precision]

\* this.precisionCache[symbol] = precision
CacheStore(cache, symbol, precision) ==
  [s \in DOMAIN cache \cup {symbol} |-> IF s = symbol THEN precision ELSE cache[s]]

\* Math.floor(quantity * 10^precision) / 10^precision
roundQuantity(quantity, precision) ==
  LET multiplier == FlRound(Pow10(precision), 1)
  IN  FlDiv(FlFloor(FlMul(quantity, multiplier)), multiplier)

getSmartQuantity(cache, symbol, quantity) ==
  roundQuantity(quantity, getPrecision(cache, symbol))

\* parseFloat of a decimal string: the digits read as an integer n and the
\* number d of digits after the point (value n / 10^d); reading stops at the
\* first character that cannot continue the number
RECURSIVE ParseDecimal(_, _, _, _, _)
ParseDecimal(s, i, n, d, seenDot) ==
  IF i > Len(s) THEN [n |-> n, d |-> d]
  ELSE IF IsDigit(s[i])
       THEN ParseDecimal(s, i + 1, 10 * n + DigitVal(s[i]), IF seenDot THEN d + 1 ELSE d, seenDot)
  ELSE IF s[i] = "." /\ ~seenDot THEN ParseDecimal(s, i + 1, n, d, TRUE)
  ELSE [n |-> n, d |-> d]

\* a leading minus sign negates the number read after it
parseFloat(s) ==
  IF Len(s) > 0 /\ s[1] = "-"
  THEN LET r == ParseDecimal(s, 2, 0, 0, FALSE) IN [n |-> 0 - r.n, d |-> r.d]
  ELSE ParseDecimal(s, 1, 0, 0, FALSE)

RECURSIVE NumDigits(_)
NumDigits(n) == IF n < 10 THEN 1 ELSE 1 + NumDigits(n \div 10)

\* Math.round(-Math.log10(n / 10^d)) for n > 0: with L the number of digits of
\* n, n / 10^d = t * 10^(L-1-d) with 1 <= t < 10, and -log10 rounds to
\* d - L + 1 when log10(t) <= 1/2 (t^2 <= 10) and to d - L otherwise
RoundNegLog10(n, d) ==
  LET L == NumDigits(n)
  IN  IF n * n <= Pow10(2 * L - 1) THEN d - L + 1 ELSE d - L

Max(a, b) == IF a >= b THEN a ELSE b

calculatePrecisionFromStepSize(stepSize) ==
  LET stepSizeNum == parseFloat(stepSize)
  IN  IF stepSizeNum.n <= 0 THEN 3
      ELSE Max(0, RoundNegLog10(stepSizeNum.n, stepSizeNum.d))

\* Array.prototype.find: the index of the first element of the set of
\* matching indices, 0 if there is none
FirstIndex(matches) ==
  IF matches = {} THEN 0 ELSE CHOOSE i \in matches : \A j \in matches : i <= j

\* filters?.find(f => f.filterType === type)?.stepSize ; <<>> stands for undefined
FilterStepSize(filters, type) ==
  LET i == FirstIndex({k \in 1..Len(filters) : filters[k].filterType = type})
  IN  IF i = 0 THEN <<>> ELSE filters[i].stepSize

\* a detection that looks at LOT_SIZE before MARKET_LOT_SIZE
detectPrecisionFromExchangeInfo_LotFirst(exchangeInfo, symbol) ==
  LET i == FirstIndex({k \in 1..Len(exchangeInfo.symbols) :
                         exchangeInfo.symbols[k].symbol = symbol})
  IN  IF i = 0 THEN 3
      ELSE LET filters  == exchangeInfo.symbols[i].filters
               lot      == FilterStepSize(filters, "LOT_SIZE")
               stepSize == IF lot /= <<>> THEN lot
                           ELSE FilterStepSize(filters, "MARKET_LOT_SIZE")
           IN  IF stepSize = <<>> THEN 3
               ELSE calculatePrecisionFromStepSize(stepSize)

detectPrecisionFromExchangeInfo(exchangeInfo, symbol) ==
  LET i == FirstIndex({k \in 1..Len(exchangeInfo.symbols) :
                         exchangeInfo.symbols[k].symbol = symbol})
  IN  IF i = 0 THEN 3
      ELSE LET filters  == exchangeInfo.symbols[i].filters
               market   == FilterStepSize(filters, "MARKET_LOT_SIZE")
               stepSize == IF market /= <<>> THEN market
                           ELSE FilterStepSize(filters, "LOT_SIZE")
           IN  IF stepSize = <<>> THEN 3
               ELSE calculatePrecisionFromStepSize(stepSize)

\* ------------------------------------------------------------------------
\* Quantity helpers (utils.js)
\* ------------------------------------------------------------------------

\* a < b for floating point values
FlLess(a, b) == ~FlLeq(b, a)

\* the negative number -a; negative numbers are only tested for their sign
FlNeg(a) == <<0 - a[1], a[2]>>

\* !x || x <= 0 is false
IsPositive(a) == a[1] > 0

\* the integer n for which n / 10^p is nearest to the exact value of a, the
\* larger one of two (Number.prototype.toFixed, a >= 0); below 2^-28 the
\* value is less than half of 10^-p
ToFixedDigits(a, p) ==
  IF a[1] = 0 \/ -a[2] > 28 THEN 0
  ELSE IF a[2] >= 0 THEN a[1] * Pow2(a[2]) * Pow10(p)
  ELSE (2 * a[1] * Pow10(p) + Pow2(-a[2])) \div Pow2(1 - a[2])

\* parseFloat(a.toFixed(p)): the decimal string of p fraction digits, read
\* back as a number
toFixed(a, p) == Num(ToFixedDigits(a, p), p)

\* the number parseFloat(s) of a decimal string with a positive value
StringNum(s) == LET r == parseFloat(s) IN Num(r.n, r.d)

roundToStepFloor(qty, stepSize) ==
  LET s == parseFloat(stepSize)
  IN  IF s.n <= 0 THEN qty
      ELSE LET step      == Num(s.n, s.d)
               precision == Max(0, RoundNegLog10(s.n, s.d))
               stepped   == FlMul(FlFloor(FlDiv(qty, step)), step)
           IN  toFixed(stepped, precision)

\* an ensureMinNotional that keeps qty only when its notional is above the minimum
ensureMinNotional_StrictlyAbove(qty, price, minNotional, stepSize) ==
  LET mn == parseFloat(IF minNotional = <<>> THEN <<"0">> ELSE minNotional)
  IN  IF mn.n <= 0 THEN qty
      ELSE LET notional == FlMul(qty, price)
           IN  IF FlLess(Num(mn.n, mn.d), notional) THEN qty
               ELSE roundToStepFloor(FlDiv(Num(mn.n, mn.d), price), stepSize)

\* an ensureMinNotional that floors the quantity it keeps to the step
ensureMinNotional_FloorsKept(qty, price, minNotional, stepSize) ==
  LET mn == parseFloat(IF minNotional = <<>> THEN <<"0">> ELSE minNotional)
  IN  IF mn.n <= 0 THEN qty
      ELSE LET notional == FlMul(qty, price)
           IN  IF FlLeq(Num(mn.n, mn.d), notional) THEN roundToStepFloor(qty, stepSize)
               ELSE roundToStepFloor(FlDiv(Num(mn.n, mn.d), price), stepSize)

\* minNotional || '0' : undefined and the empty string (both <<>>) give '0'
ensureMinNotional(qty, price, minNotional, stepSize) ==
  LET mn == parseFloat(IF minNotional = <<>> THEN <<"0">> ELSE minNotional)
  IN  IF mn.n <= 0 THEN qty
      ELSE LET notional == FlMul(qty, price)
           IN  IF FlLeq(Num(mn.n, mn.d), notional) THEN qty
               ELSE roundToStepFloor(FlDiv(Num(mn.n, mn.d), price), stepSize)

\* the literal 0.00000001, computed as 0.0001 / 10000
MinQuantity == FlDiv(Num(1, 4), Num(10000, 0))

\* Math.max
FlMax(a, b) == IF FlLeq(a, b) THEN b ELSE a

\* a qtyFromNotional that returns the floored quantity as it is
qtyFromNotional_NoClamp(notionalUsd, price, stepSize, minNotional) ==
  IF ~IsPositive(price) THEN FlZero
  ELSE LET q0 == FlDiv(notionalUsd, price)
           q  == ensureMinNotional(q0, price, minNotional, stepSize)
       IN  roundToStepFloor(q, stepSize)

qtyFromNotional(notionalUsd, price, stepSize, minNotional) ==
  IF ~IsPositive(price) THEN FlZero
  ELSE LET q0 == FlDiv(notionalUsd, price)
           q  == ensureMinNotional(q0, price, minNotional, stepSize)
       IN  FlMax(MinQuantity, roundToStepFloor(q, stepSize))

\* ------------------------------------------------------------------------
\* Errors of the transport collaborator
\* ------------------------------------------------------------------------

PrecisionMsg == "Precision is over the maximum defined for this asset."

\* the shapes an error thrown by placeMarketOrder can have
ErrorShapes ==
  [precision |-> [response |-> TRUE,  data |-> TRUE,  code |-> -1111, hasMsg |-> TRUE,
                  msg |-> PrecisionMsg],
   network   |-> [response |-> FALSE, data |-> FALSE, code |-> 0,     hasMsg |-> FALSE,
                  msg |-> ""],
   nodata    |-> [response |-> TRUE,  data |-> FALSE, code |-> 0,     hasMsg |-> FALSE,
                  msg |-> ""],
   margin    |-> [response |-> TRUE,  data |-> TRUE,  code |-> -2019, hasMsg |-> TRUE,
                  msg |-> "Margin is insufficient."],
   othermsg  |-> [response |-> TRUE,  data |-> TRUE,  code |-> -1111, hasMsg |-> TRUE,
                  msg |-> "Parameter quantity is malformed."],
   nomsg     |-> [response |-> TRUE,  data |-> TRUE,  code |-> -1111, hasMsg |-> FALSE,
                  msg |-> ""]]

\* msg.includes('Precision is over the maximum')
MsgIncludesPrecisionText(msg) == msg = PrecisionMsg

\* evaluating the condition of the catch blocks throws a TypeError when
\* msg is undefined: undefined has no method includes
ConditionThrows(e) == e.response /\ e.data /\ e.code = -1111 /\ ~e.hasMsg

\* error.response && error.response.data && error.response.data.code === -1111
\*   && error.response.data.msg.includes('Precision is over the maximum')
IsPrecisionError(e) ==
  e.response /\ e.data /\ e.code = -1111 /\ e.hasMsg /\ MsgIncludesPrecisionText(e.msg)

\* ------------------------------------------------------------------------
\* State
\* ------------------------------------------------------------------------

\* precisionCache : PrecisionManager.precisionCache of the singleton
\* disk           : contents of .precision-cache.json
\* flow           : the asynchronous invocations in progress, per caller
\* calls          : number of operations started
\* call           : one call of a synchronous function, its arguments and,
\*                  once it has returned, its results
VARIABLES precisionCache, disk, flow, calls, call

vars == <<precisionCache, disk, flow, calls, call>>

\* the callers that can have an invocation in progress
AllFlows == {1, 2}

\* A flow record holds the arguments and locals of one invocation (symbol,
\* quantity, startPrecision, precision, the point of suspension pc) and what
\* it did: p0 and entry are getPrecision(symbol) and the cache and file at
\* entry, subs the submissions issued, replies how they resolved, writes the
\* setPrecision calls made, fetches the getExchangeInfo calls, result what
\* the caller gets.

NoResult == [type |-> "none", shape |-> "", from |-> 0, cause |-> 0]

IdleFlow ==
  [op |-> "none", pc |-> "idle", symbol |-> <<>>, quantity |-> FlZero,
   p0 |-> 0, startPrecision |-> 0, precision |-> 0,
   entry |-> <<>>, subs |-> <<>>, replies |-> <<>>, writes |-> <<>>,
   fetches |-> 0, result |-> NoResult]

\* no call of a synchronous function is recorded
NoCall ==
  [fn |-> "none", done |-> FALSE, symbol |-> <<>>, notionalUsd |-> FlZero,
   qty |-> FlZero, price |-> FlZero, stepSize |-> <<>>, minNotional |-> <<>>,
   result |-> FlZero, again |-> FlZero, info |-> {}, precision |-> 0,
   stepSizeOut |-> <<>>, known |-> FALSE, exchangeInfo |-> <<>>, cache |-> <<>>]

Init ==
  /\ precisionCache = <<>>
  /\ disk = <<>>
  /\ flow = [f \in AllFlows |-> IdleFlow]
  /\ calls = 0
  /\ call = NoCall

\* ------------------------------------------------------------------------
\* PrecisionManager: operations on the cache
\* ------------------------------------------------------------------------

\* Number to string, for the integers >= 0
RECURSIVE NumberToString(_)
NumberToString(n) ==
  IF n < 10 THEN <<Digits[n + 1]>> ELSE Append(NumberToString(n \div 10), Digits[(n % 10) + 1])

\* JSON.stringify(cache): the members of the object, each a key and the text
\* of its number
JSONStringify(cache) ==
  {[key |-> k, value |-> NumberToString(cache[k])] : k \in DOMAIN cache}

\* JSON.parse of such a text
JSONParse(text) ==
  [k \in {m.key : m \in text} |-> parseFloat((CHOOSE m \in text : m.key = k).value).n]

\* loadPrecisionCache: file is the cache whose JSON text the file holds, <<>>
\* when there is no file; when reading or parsing throws, the error is
\* caught and the cache starts empty
loadPrecisionCache(file, readable) ==
  IF readable THEN JSONParse(JSONStringify(file)) ELSE <<>>

\* a save that adds the new symbols to the file and keeps the entries it has
savePrecisionCache_AddOnly(cache, written) ==
  IF written
  THEN [k \in DOMAIN cache |-> IF k \in DOMAIN disk THEN disk[k] ELSE cache[k]]
  ELSE disk

\* savePrecisionCache: writeFileSync replaces the file; a failure is caught
savePrecisionCache(cache, written) == IF written THEN cache ELSE disk

\* a setPrecision that writes the file first and gives up when that fails
setPrecision_SaveFirst(symbol, precision, written) ==
  /\ precisionCache' = IF written THEN CacheStore(precisionCache, symbol, precision)
                                  ELSE precisionCache
  /\ disk' = savePrecisionCache(precisionCache', written)

\* a setPrecision that never lowers the precision a symbol already has
setPrecision_KeepsFiner(symbol, precision, written) ==
  /\ precisionCache' =
       IF symbol \in DOMAIN precisionCache /\ precisionCache[symbol] > precision
       THEN precisionCache
       ELSE CacheStore(precisionCache, symbol, precision)
  /\ disk' = savePrecisionCache(precisionCache', written)

\* setPrecision(symbol, precision); written tells whether the write to the
\* file succeeds
setPrecision(symbol, precision, written) ==
  /\ precisionCache' = CacheStore(precisionCache, symbol, precision)
  /\ disk' = savePrecisionCache(precisionCache', written)

\* the flow's own record of a setPrecision call it made: the precision, the
\* number of submissions resolved before it, whether the file was written
RecordWrite(r, precision, written) ==
  [r EXCEPT !.writes = Append(@, [precision |-> precision, after |-> Len(r.replies),
                                   written |-> written])]

\* ------------------------------------------------------------------------
\* placeMarketOrder as seen by the retry engine: a submission is issued and
\* later resolves with a result or an error
\* ------------------------------------------------------------------------

Submit(r, precision, quantity, phase, pc) ==
  [r EXCEPT !.pc = pc, !.precision = precision,
            !.subs = Append(@, [precision |-> precision, quantity |-> quantity,
                                phase |-> phase])]

Reply(r, outcome) == [r EXCEPT !.replies = Append(@, outcome)]

\* return the result of the last submission
Return(r) == [r EXCEPT !.pc = "returned",
                       !.result = [type |-> "value", shape |-> "order",
                                   from |-> Len(r.subs), cause |-> 0]]

\* throw the error the last submission failed with
Rethrow(r, shape) == [r EXCEPT !.pc = "thrown",
                               !.result = [type |-> "error", shape |-> shape,
                                           from |-> Len(r.subs), cause |-> 0]]

\* the TypeError raised while a catch block evaluates its condition
ThrowTypeError(r) == [r EXCEPT !.pc = "thrown",
                               !.result = [type |-> "error", shape |-> "TypeError",
                                           from |-> 0, cause |-> 0]]

\* throw new Error(`All precision values (${startPrecision} to 0) failed ...`)
ThrowAllFailed(r) == [r EXCEPT !.pc = "thrown",
                               !.result = [type |-> "error", shape |-> "AllFailed",
                                           from |-> 0, cause |-> 0]]

\* the loop run one step too far (precision >= -1)
LadderAttempt_OneTooFar(r, precision) ==
  IF precision >= -1
  THEN Submit(r, precision, roundQuantity(r.quantity, precision), "ladder", "ladder")
  ELSE ThrowAllFailed(r)

\* a loop that, below precision 0, waits for something that never happens
LadderAttempt_Stalls(r, precision) ==
  IF precision >= 0
  THEN Submit(r, precision, roundQuantity(r.quantity, precision), "ladder", "ladder")
  ELSE [r EXCEPT !.pc = "stalled"]

\* a loop that issues the submissions at precision and at precision - 1
\* together and awaits them afterwards
LadderAttempt_TwoAtOnce(r, precision) ==
  IF precision >= 1
  THEN Submit(Submit(r, precision, roundQuantity(r.quantity, precision), "ladder", "ladder"),
              precision - 1, roundQuantity(r.quantity, precision - 1), "ladder", "ladder")
  ELSE IF precision = 0
  THEN Submit(r, precision, roundQuantity(r.quantity, precision), "ladder", "ladder")
  ELSE ThrowAllFailed(r)

\* a loop that rounds what the attempt before it submitted
LadderAttempt_Requantizes(r, precision) ==
  IF precision >= 0
  THEN Submit(r, precision,
              roundQuantity(IF r.precision = precision + 1 /\ r.subs /= <<>>
                            THEN r.subs[Len(r.subs)].quantity ELSE r.quantity,
                            precision),
              "ladder", "ladder")
  ELSE ThrowAllFailed(r)

\* a loop that reads the cache again before every attempt and goes on from
\* the entry when it is lower
LadderAttempt_ReadsCacheAgain(r, precision) ==
  LET p == IF r.symbol \in DOMAIN precisionCache /\ precisionCache[r.symbol] < precision
           THEN precisionCache[r.symbol] ELSE precision
  IN  IF p >= 0
      THEN Submit(r, p, roundQuantity(r.quantity, p), "ladder", "ladder")
      ELSE ThrowAllFailed(r)

\* one iteration of the for loop of handlePrecisionError, up to the await
LadderAttempt(r, precision) ==
  IF precision >= 0
  THEN Submit(r, precision, roundQuantity(r.quantity, precision), "ladder", "ladder")
  ELSE ThrowAllFailed(r)

\* handlePrecisionError up to its first await
EnterLadder(r, cache) ==
  LET startPrecision == getPrecision(cache, r.symbol)
  IN  LadderAttempt([r EXCEPT !.startPrecision = startPrecision], startPrecision)

\* ------------------------------------------------------------------------
\* Inputs
\* ------------------------------------------------------------------------

BTCUSDT  == <<"B","T","C","U","S","D","T">>
DOGEUSDT == <<"D","O","G","E","U","S","D","T">>
XRPUSD   == <<"X","R","P","U","S","D">>

\* a registry symbol of precision 3, one of precision 0, and a symbol only
\* the substring rules know (precision 1)
Symbols == {BTCUSDT, DOGEUSDT, XRPUSD}

\* 1.23456 and the floating point value next below 1.7
Quantities == {Num(123456, 5), FlPrev(Num(17, 1))}

\* the ways a submission can resolve at a venue whose errors carry a message
Outcomes == {"ok", "precision", "network", "nodata", "margin", "othermsg"}

Filter(type, stepSize) == [filterType |-> type, stepSize |-> stepSize]

SymbolInfo(symbol, filters) == [symbol |-> symbol, filters |-> filters]

\* the filter lists a snapshot can hold for a symbol
FilterLists ==
  { <<Filter("PRICE_FILTER", <<>>)>>,
    <<Filter("LOT_SIZE", <<"1">>)>>,
    <<Filter("LOT_SIZE", <<"0",".","1">>), Filter("PRICE_FILTER", <<>>)>>,
    <<Filter("LOT_SIZE", <<"1">>), Filter("MARKET_LOT_SIZE", <<"0",".","0","0","1">>)>>,
    <<Filter("MARKET_LOT_SIZE", <<"0",".","0","0","0","0","1">>),
      Filter("LOT_SIZE", <<"0",".","0","1">>)>> }

\* what the live metadata fetch of a flow for symbol can resolve with: an error
\* (ok = FALSE), null, a snapshot without the symbol, a snapshot with it
ExchangeInfos(symbol) ==
  { [ok |-> FALSE, null |-> FALSE, symbols |-> <<>>],
    [ok |-> TRUE,  null |-> TRUE,  symbols |-> <<>>],
    [ok |-> TRUE,  null |-> FALSE,
     symbols |-> <<SymbolInfo(<<"E","T","H","U","S","D","T">>,
                              <<Filter("LOT_SIZE", <<"0",".","0","0","1">>)>>)>>] }
  \cup
  { [ok |-> TRUE, null |-> FALSE,
     symbols |-> <<SymbolInfo(<<"E","T","H","U","S","D","T">>,
                              <<Filter("LOT_SIZE", <<"0",".","0","0","1">>)>>),
                   SymbolInfo(symbol, fl)>>] : fl \in FilterLists }

AllExchangeInfos == UNION {ExchangeInfos(s) : s \in Symbols}

\* the precisions a caller passes to setPrecision directly (documented 0-4)
Precisions == 0..4

\* ------------------------------------------------------------------------
\* Operations
\* ------------------------------------------------------------------------

\* placeMarketOrderSmart up to the await of the first submission
CallPlaceMarketOrderSmart(f, symbol, quantity) ==
  /\ flow[f].pc = "idle"
  /\ calls < MaxCalls
  /\ LET p0 == getPrecision(precisionCache, symbol)
         r  == [IdleFlow EXCEPT !.op = "placeMarketOrderSmart", !.symbol = symbol,
                                !.quantity = quantity, !.p0 = p0,
                                !.entry = <<precisionCache, disk>>]
     IN  flow' = [flow EXCEPT ![f] =
                    Submit(r, p0, getSmartQuantity(precisionCache, symbol, quantity),
                           "first", "first")]
  /\ calls' = calls + 1
  /\ UNCHANGED call
  /\ UNCHANGED <<precisionCache, disk>>

\* a first submission whose success saves the precision it was made at
FirstResolves_Saves(f, outcome) ==
  /\ flow[f].pc = "first"
  /\ LET r == Reply(flow[f], outcome)
     IN  IF outcome = "ok"
         THEN /\ setPrecision(r.symbol, r.precision, TRUE)
              /\ flow' = [flow EXCEPT ![f] = Return(RecordWrite(r, r.precision, TRUE))]
         ELSE /\ flow' = [flow EXCEPT ![f] =
                   IF ConditionThrows(ErrorShapes[outcome]) THEN ThrowTypeError(r)
                   ELSE IF IsPrecisionError(ErrorShapes[outcome])
                        THEN [r EXCEPT !.pc = "fetch", !.fetches = @ + 1]
                   ELSE Rethrow(r, outcome)]
              /\ UNCHANGED <<precisionCache, disk>>
  /\ UNCHANGED <<calls, call>>

\* the first submission resolves: return, or the outer catch block up to
\* await this.getExchangeInfo()
FirstResolves(f, outcome) ==
  /\ flow[f].pc = "first"
  /\ LET r == Reply(flow[f], outcome)
     IN  flow' = [flow EXCEPT ![f] =
           IF outcome = "ok" THEN Return(r)
           ELSE IF ConditionThrows(ErrorShapes[outcome]) THEN ThrowTypeError(r)
           ELSE IF IsPrecisionError(ErrorShapes[outcome])
                THEN [r EXCEPT !.pc = "fetch", !.fetches = @ + 1]
           ELSE Rethrow(r, outcome)]
  /\ UNCHANGED <<precisionCache, disk, calls, call>>

\* a detection pass without its try block: a failed fetch reaches the caller
ExchangeInfoResolves_FetchAborts(f, info, written) ==
  /\ flow[f].pc = "fetch"
  /\ info \in ExchangeInfos(flow[f].symbol)
  /\ LET r == flow[f]
     IN  IF ~info.ok \/ info.null
         THEN /\ flow' = [flow EXCEPT ![f] = Rethrow(r, "network")]
              /\ UNCHANGED <<precisionCache, disk>>
         ELSE LET detectedPrecision == detectPrecisionFromExchangeInfo(info, r.symbol)
              IN  /\ setPrecision(r.symbol, detectedPrecision, written)
                  /\ flow' = [flow EXCEPT ![f] =
                       Submit(RecordWrite(r, detectedPrecision, written),
                              getPrecision(precisionCache', r.symbol),
                              getSmartQuantity(precisionCache', r.symbol, r.quantity),
                              "detected", "detected")]
  /\ UNCHANGED <<calls, call>>

\* getExchangeInfo resolves: detection, setPrecision and the submission at the
\* detected precision; a failure of the fetch or of the detection is caught
\* and the ladder is entered
ExchangeInfoResolves(f, info, written) ==
  /\ flow[f].pc = "fetch"
  /\ info \in ExchangeInfos(flow[f].symbol)
  /\ LET r == flow[f]
     IN  IF ~info.ok \/ info.null
         THEN /\ flow' = [flow EXCEPT ![f] = EnterLadder(r, precisionCache)]
              /\ UNCHANGED <<precisionCache, disk>>
         ELSE LET detectedPrecision == detectPrecisionFromExchangeInfo(info, r.symbol)
              IN  /\ setPrecision(r.symbol, detectedPrecision, written)
                  /\ flow' = [flow EXCEPT ![f] =
                       Submit(RecordWrite(r, detectedPrecision, written),
                              getPrecision(precisionCache', r.symbol),
                              getSmartQuantity(precisionCache', r.symbol, r.quantity),
                              "detected", "detected")]
  /\ UNCHANGED <<calls, call>>

\* a detection pass that also saves the precision of its successful submission
DetectedResolves_Saves(f, outcome) ==
  /\ flow[f].pc = "detected"
  /\ LET r == Reply(flow[f], outcome)
     IN  IF outcome = "ok"
         THEN /\ setPrecision(r.symbol, r.precision, TRUE)
              /\ flow' = [flow EXCEPT ![f] = Return(RecordWrite(r, r.precision, TRUE))]
         ELSE /\ flow' = [flow EXCEPT ![f] = EnterLadder(r, precisionCache)]
              /\ UNCHANGED <<precisionCache, disk>>
  /\ UNCHANGED <<calls, call>>

\* the submission at the detected precision resolves: return, or the inner
\* catch block (which catches every error) and the entry of the ladder
DetectedResolves(f, outcome) ==
  /\ flow[f].pc = "detected"
  /\ LET r == Reply(flow[f], outcome)
     IN  flow' = [flow EXCEPT ![f] =
           IF outcome = "ok" THEN Return(r) ELSE EnterLadder(r, precisionCache)]
  /\ UNCHANGED <<precisionCache, disk, calls, call>>

\* a direct call of handlePrecisionError, up to its first await
CallHandlePrecisionError(f, symbol, quantity) ==
  /\ flow[f].pc = "idle"
  /\ calls < MaxCalls
  /\ LET r == [IdleFlow EXCEPT !.op = "handlePrecisionError", !.symbol = symbol,
                                !.quantity = quantity,
                                !.p0 = getPrecision(precisionCache, symbol),
                                !.entry = <<precisionCache, disk>>]
     IN  flow' = [flow EXCEPT ![f] = EnterLadder(r, precisionCache)]
  /\ calls' = calls + 1
  /\ UNCHANGED call
  /\ UNCHANGED <<precisionCache, disk>>

\* a submission of the ladder resolves: setPrecision and return, or the catch
\* block of handlePrecisionError and the next iteration of the loop
LadderResolves(f, outcome, written) ==
  /\ flow[f].pc = "ladder"
  /\ LET r == Reply(flow[f], outcome)
     IN  IF outcome = "ok"
         THEN /\ setPrecision(r.symbol, r.precision, written)
              /\ flow' = [flow EXCEPT ![f] = Return(RecordWrite(r, r.precision, written))]
         ELSE /\ flow' = [flow EXCEPT ![f] =
                   IF ConditionThrows(ErrorShapes[outcome]) THEN ThrowTypeError(r)
                   ELSE IF IsPrecisionError(ErrorShapes[outcome])
                        THEN LadderAttempt(r, r.precision - 1)
                   ELSE Rethrow(r, outcome)]
              /\ UNCHANGED <<precisionCache, disk>>
  /\ UNCHANGED <<calls, call>>

\* the caller receives the result or the error of a finished invocation
Complete(f) ==
  /\ flow[f].pc \in {"returned", "thrown"}
  /\ flow' = [flow EXCEPT ![f] = IdleFlow]
  /\ UNCHANGED <<precisionCache, disk, calls, call>>

\* a direct call of precisionManager.setPrecision
CallSetPrecision(symbol, precision, written) ==
  /\ \A f \in AllFlows : flow[f].pc = "idle"
  /\ calls < MaxCalls
  /\ setPrecision(symbol, precision, written)
  /\ calls' = calls + 1
  /\ UNCHANGED call
  /\ UNCHANGED flow

\* ------------------------------------------------------------------------
\* Specification: one caller whose invocations run one after the other, on a
\* file system whose writes succeed
\* ------------------------------------------------------------------------

DiskHealthy == {TRUE}

Next ==
  \/ \E s \in Symbols, q \in Quantities : CallPlaceMarketOrderSmart(1, s, q)
  \/ \E o \in Outcomes : FirstResolves(1, o)
  \/ \E info \in AllExchangeInfos, w \in DiskHealthy : ExchangeInfoResolves(1, info, w)
  \/ \E o \in Outcomes : DetectedResolves(1, o)
  \/ \E s \in Symbols, q \in Quantities : CallHandlePrecisionError(1, s, q)
  \/ \E o \in Outcomes, w \in DiskHealthy : LadderResolves(1, o, w)
  \/ Complete(1)
  \/ \E s \in Symbols, p \in Precisions, w \in DiskHealthy : CallSetPrecision(s, p, w)

Spec == Init /\ [][Next]_vars

\* ------------------------------------------------------------------------
\* Specification: the same caller on a file system whose writes can fail
\* ------------------------------------------------------------------------

DiskFaulty == BOOLEAN

DiskSymbols == {BTCUSDT, DOGEUSDT}

DiskQuantities == {Num(123456, 5)}

DiskOutcomes == {"ok", "precision", "margin"}

NextDisk ==
  \/ \E s \in DiskSymbols, q \in DiskQuantities : CallPlaceMarketOrderSmart(1, s, q)
  \/ \E o \in DiskOutcomes : FirstResolves(1, o)
  \/ \E info \in AllExchangeInfos, w \in DiskFaulty : ExchangeInfoResolves(1, info, w)
  \/ \E o \in DiskOutcomes : DetectedResolves(1, o)
  \/ \E s \in DiskSymbols, q \in DiskQuantities : CallHandlePrecisionError(1, s, q)
  \/ \E o \in DiskOutcomes, w \in DiskFaulty : LadderResolves(1, o, w)
  \/ Complete(1)
  \/ \E s \in DiskSymbols, p \in Precisions, w \in DiskFaulty : CallSetPrecision(s, p, w)

SpecDisk == Init /\ [][NextDisk]_vars

\* ------------------------------------------------------------------------
\* Specification: two callers whose invocations are interleaved on the
\* shared precisionManager
\* ------------------------------------------------------------------------

TwoSymbols == {BTCUSDT, XRPUSD}

TwoQuantities == {Num(123456, 5)}

TwoOutcomes == {"ok", "precision"}

\* the metadata fetch finds the LOT_SIZE step size 0.1
TwoExchangeInfos ==
  {info \in AllExchangeInfos :
     /\ Len(info.symbols) = 2
     /\ info.symbols[2].filters[1] = Filter("LOT_SIZE", <<"0",".","1">>)}

NextTwo ==
  \/ \E f \in AllFlows, s \in TwoSymbols, q \in TwoQuantities :
       CallPlaceMarketOrderSmart(f, s, q)
  \/ \E f \in AllFlows, o \in TwoOutcomes : FirstResolves(f, o)
  \/ \E f \in AllFlows, info \in TwoExchangeInfos : ExchangeInfoResolves(f, info, TRUE)
  \/ \E f \in AllFlows, o \in TwoOutcomes : DetectedResolves(f, o)
  \/ \E f \in AllFlows, s \in TwoSymbols, q \in TwoQuantities :
       CallHandlePrecisionError(f, s, q)
  \/ \E f \in AllFlows, o \in TwoOutcomes : LadderResolves(f, o, TRUE)
  \/ \E f \in AllFlows : Complete(f)

SpecTwo == Init /\ [][NextTwo]_vars

\* ------------------------------------------------------------------------
\* Specification: the one caller of Spec, when every submission and every
\* metadata fetch eventually resolves
\* ------------------------------------------------------------------------

\* the caller of Spec with the symbols of SpecTwo and the outcomes of SpecDisk
NextLive ==
  \/ \E s \in TwoSymbols, q \in Quantities : CallPlaceMarketOrderSmart(1, s, q)
  \/ \E o \in DiskOutcomes : FirstResolves(1, o)
  \/ \E info \in AllExchangeInfos, w \in DiskHealthy : ExchangeInfoResolves(1, info, w)
  \/ \E o \in DiskOutcomes : DetectedResolves(1, o)
  \/ \E s \in TwoSymbols, q \in Quantities : CallHandlePrecisionError(1, s, q)
  \/ \E o \in DiskOutcomes, w \in DiskHealthy : LadderResolves(1, o, w)
  \/ Complete(1)
  \/ \E s \in TwoSymbols, p \in Precisions, w \in DiskHealthy : CallSetPrecision(s, p, w)

SpecLive == Init /\ [][NextLive]_vars

\* a submission or the metadata fetch of flow f resolves
Resolves(f) ==
  \/ \E o \in DiskOutcomes : FirstResolves(f, o)
  \/ \E info \in AllExchangeInfos, w \in DiskHealthy : ExchangeInfoResolves(f, info, w)
  \/ \E o \in DiskOutcomes : DetectedResolves(f, o)
  \/ \E o \in DiskOutcomes, w \in DiskHealthy : LadderResolves(f, o, w)

\* the positions at which a flow awaits a submission or the metadata fetch;
\* Resolves(f) is enabled exactly there
Awaiting == {"first", "fetch", "detected", "ladder"}

\* weak fairness of Resolves(f), WF_vars(Resolves(f)), with the enabling
\* condition of Resolves(f) written as the position of the flow
ResolvesFairly(f) ==
  \/ []<>(flow[f].pc \notin Awaiting)
  \/ []<><<Resolves(f)>>_vars

SpecFair == SpecLive /\ ResolvesFairly(1)

\* ------------------------------------------------------------------------
\* Specification: handlePrecisionError called with a trade function that can
\* fail with every error shape, the -1111 error without a message included
\* ------------------------------------------------------------------------

ShapeOutcomes == Outcomes \cup {"nomsg"}

NextShapes ==
  \/ \E s \in TwoSymbols, q \in TwoQuantities : CallHandlePrecisionError(1, s, q)
  \/ \E o \in ShapeOutcomes, w \in DiskHealthy : LadderResolves(1, o, w)
  \/ Complete(1)

SpecShapes == Init /\ [][NextShapes]_vars

\* ------------------------------------------------------------------------
\* Specification: setPrecision calls on a file system whose writes can fail,
\* and restarts of the process
\* ------------------------------------------------------------------------

\* setPrecision called by a library user; call.known tells whether the file
\* was written, call.cache is the cache as of the last write that reached the
\* file
SetPrecisionCall(symbol, precision, written) ==
  /\ calls < MaxCalls
  /\ setPrecision(symbol, precision, written)
  /\ call' = [NoCall EXCEPT !.fn = "setPrecision", !.done = TRUE, !.symbol = symbol,
                            !.precision = precision, !.known = written,
                            !.cache = IF written THEN precisionCache' ELSE call.cache]
  /\ calls' = calls + 1
  /\ UNCHANGED flow

\* the process ends and a new one constructs the PrecisionManager;
\* call.known tells whether the file could be read
Restart(readable) ==
  /\ call.fn /= "restart"
  /\ precisionCache' = loadPrecisionCache(disk, readable)
  /\ call' = [call EXCEPT !.fn = "restart", !.known = readable]
  /\ UNCHANGED <<disk, flow, calls>>

NextRestart ==
  \/ \E s \in Symbols, p \in Precisions, w \in BOOLEAN : SetPrecisionCall(s, p, w)
  \/ \E readable \in BOOLEAN : Restart(readable)

SpecRestart == Init /\ [][NextRestart]_vars

\* ------------------------------------------------------------------------
\* Specification: a second process in the same working directory, with its
\* own PrecisionManager on the same file. precisionCache is the cache of the
\* first process; call.cache is the cache of the second one, call.symbol and
\* call.precision its latest setPrecision
\* ------------------------------------------------------------------------

\* the second process constructs its PrecisionManager and loads the file
SecondStarts ==
  /\ call.fn = "none"
  /\ call' = [NoCall EXCEPT !.fn = "instance", !.cache = loadPrecisionCache(disk, TRUE)]
  /\ UNCHANGED <<precisionCache, disk, flow, calls>>

\* setPrecision(symbol, precision) in the second process
SecondSetPrecision(symbol, precision) ==
  /\ call.fn = "instance"
  /\ calls < MaxCalls
  /\ call' = [call EXCEPT !.done = TRUE, !.symbol = symbol, !.precision = precision,
                          !.cache = CacheStore(@, symbol, precision)]
  /\ disk' = savePrecisionCache(call'.cache, TRUE)
  /\ calls' = calls + 1
  /\ UNCHANGED <<precisionCache, flow>>

NextShared ==
  \/ SecondStarts
  \/ \E s \in Symbols, p \in Precisions : CallSetPrecision(s, p, TRUE)
  \/ \E s \in Symbols, p \in Precisions : SecondSetPrecision(s, p)

SpecShared == Init /\ [][NextShared]_vars

\* ------------------------------------------------------------------------
\* Specification: single calls of the synchronous functions (the quantity
\* helpers, getPrecision, the registry lookups) on given arguments
\* ------------------------------------------------------------------------

\* quantities: 1.23456, 7.8, 0.26, 0.7, 25, 0.0051, 1.35, 0, 0.0001, 0.02, 2,
\* 0.00001
PureQuantities ==
  {Num(123456, 5), Num(78, 1), Num(26, 2), Num(7, 1), Num(25, 0), Num(51, 4),
   Num(135, 2), FlZero, Num(1, 4), Num(2, 2), Num(2, 0), Num(1, 5)}

\* step sizes: powers of ten, other steps, and the invalid ones (zero,
\* negative, undefined)
PureStepSizes ==
  {<<"0",".","0","0","1">>, <<"0",".","1">>, <<"1">>, <<"1","0">>,
   <<"0",".","2","5">>, <<"0",".","5">>, <<"0",".","0","0","2">>,
   <<"0">>, <<"-","1">>, <<>>}

\* the step sizes of the calls that involve a price
PriceStepSizes == {<<"0",".","0","0","1">>, <<"0",".","1">>}

\* quantities, prices and minimum notionals of ensureMinNotional calls
NotionalQuantities == {Num(1, 4), Num(1, 5), Num(1, 0), Num(2, 0), FlZero}
NotionalPrices == {Num(50000, 0), Num(25, 1), Num(10, 0)}
MinNotionals == {<<"5">>, <<"3">>, <<"1","3">>, <<"0">>, <<"-","1">>, <<>>}

\* target notionals, prices and minimum notionals of qtyFromNotional calls
TargetNotionals == {Num(1000, 0), Num(13, 0), Num(3, 0), Num(1, 0)}
TargetPrices == {Num(50000, 0), Num(10, 0), FlZero, FlNeg(Num(10, 0))}
TargetMinNotionals == {<<"5">>, <<"3">>, <<"1","3">>}

XRPBTC    == <<"X","R","P","B","T","C">>
DOTUSDT   == <<"D","O","T","U","S","D","T">>
FOO       == <<"F","O","O">>

\* symbols given to getPrecision: registry symbols (two of which the substring
\* rules would classify differently), symbols matching several substring
\* rules, one or none, in upper, lower and mixed case
PureSymbols ==
  {BTCUSDT, DOGEUSDT, <<"F","B","T","C","U","S","D","T">>, DOTUSDT, <<"d","o","t","u","s","d","t">>, XRPUSD, XRPBTC, <<"x","r","p","b","t","c">>,
   <<"S","O","L","X","R","P">>, <<"D","O","G","E","E","T","H">>, <<"A","D","A","X","R","P">>, <<"A","V","A","X","B","N","B">>, <<"X","R","P","D","O","G","E">>, <<"A","d","a","U","s","d">>, <<"a","s","t","e","r","u","s","d">>, FOO}

\* learned precision caches
PureCaches ==
  {<<>>, CacheStore(<<>>, BTCUSDT, 2), CacheStore(CacheStore(<<>>, XRPBTC, 4), FOO, 1),
   CacheStore(<<>>, <<"S","O","L","X","R","P">>, 0)}

\* symbols given to the registry lookups
LookupSymbols == CaseVariants(DOGEUSDT) \cup CaseVariants(DOTUSDT) \cup CaseVariants(FOO)

LookupQuantities == {Num(78, 1)}

RoundCall(qty, stepSize) ==
  [NoCall EXCEPT !.fn = "roundToStepFloor", !.qty = qty, !.stepSize = stepSize]

NotionalCall(qty, price, minNotional, stepSize) ==
  [NoCall EXCEPT !.fn = "ensureMinNotional", !.qty = qty, !.price = price,
                 !.minNotional = minNotional, !.stepSize = stepSize]

QtyCall(notionalUsd, price, stepSize, minNotional) ==
  [NoCall EXCEPT !.fn = "qtyFromNotional", !.notionalUsd = notionalUsd, !.price = price,
                 !.stepSize = stepSize, !.minNotional = minNotional]

PrecisionCall(symbol) == [NoCall EXCEPT !.fn = "getPrecision", !.symbol = symbol]

LookupCall(symbol, qty) == [NoCall EXCEPT !.fn = "lookup", !.symbol = symbol, !.qty = qty]

\* the step size 10^-p as the venue's filters write it: "1", "0.1", "0.01", ...
RECURSIVE PowerOfTenStep(_)
PowerOfTenStep(p) ==
  IF p = 0 THEN <<"1">>
  ELSE IF p = 1 THEN <<"0", ".", "1">>
  ELSE LET t == PowerOfTenStep(p - 1)
       IN  <<"0", ".", "0">> \o SubSeq(t, 3, Len(t))

QuantizeCall(qty, precision) ==
  [NoCall EXCEPT !.fn = "roundQuantity", !.qty = qty, !.precision = precision,
                 !.stepSize = PowerOfTenStep(precision)]

\* the filter lists of the snapshots given to detectPrecisionFromExchangeInfo:
\* those of the flows, lists whose MARKET_LOT_SIZE filter has no step size or
\* the step size "0", and a list with a step size of 10
DetectFilterLists ==
  FilterLists \cup
  { <<Filter("MARKET_LOT_SIZE", <<>>), Filter("LOT_SIZE", <<"0",".","0","1">>)>>,
    <<Filter("LOT_SIZE", <<"0",".","0","1">>), Filter("MARKET_LOT_SIZE", <<"0",".","1">>)>>,
    <<Filter("MARKET_LOT_SIZE", <<"0">>), Filter("LOT_SIZE", <<"0",".","0","1">>)>>,
    <<Filter("LOT_SIZE", <<"0",".","0","0">>)>>,
    <<Filter("LOT_SIZE", <<"1","0">>)>>,
    <<>> }

\* snapshots with an entry for BTCUSDT after, before or without other
\* entries, and snapshots without one
DetectSnapshots ==
  LET other == SymbolInfo(<<"E","T","H","U","S","D","T">>,
                          <<Filter("LOT_SIZE", <<"0",".","0","0","0","1">>)>>)
  IN  {[ok |-> TRUE, null |-> FALSE, symbols |-> <<>>],
       [ok |-> TRUE, null |-> FALSE, symbols |-> <<other>>]}
      \cup {[ok |-> TRUE, null |-> FALSE, symbols |-> <<other, SymbolInfo(BTCUSDT, fl)>>] :
               fl \in DetectFilterLists}
      \cup {[ok |-> TRUE, null |-> FALSE, symbols |-> <<SymbolInfo(BTCUSDT, fl), other>>] :
               fl \in DetectFilterLists}

\* the calls on the empty cache
HelperCalls ==
  {RoundCall(q, s) : q \in PureQuantities, s \in PureStepSizes}
  \cup {NotionalCall(c[1], c[2], c[3], c[4]) :
          c \in NotionalQuantities \X NotionalPrices \X MinNotionals \X PriceStepSizes}
  \cup {QtyCall(c[1], c[2], c[3], c[4]) :
          c \in TargetNotionals \X TargetPrices \X PriceStepSizes \X TargetMinNotionals}
  \cup {LookupCall(s, q) : s \in LookupSymbols, q \in LookupQuantities}
  \cup {QuantizeCall(q, p) : q \in PureQuantities, p \in Precisions}
  \cup {[NoCall EXCEPT !.fn = "detectPrecisionFromExchangeInfo", !.symbol = BTCUSDT,
                        !.exchangeInfo = x] : x \in DetectSnapshots}

InitPure ==
  /\ disk = <<>>
  /\ flow = [f \in AllFlows |-> IdleFlow]
  /\ calls = 0
  /\ \/ precisionCache = <<>> /\ call \in HelperCalls
     \/ precisionCache \in PureCaches /\ call \in {PrecisionCall(s) : s \in PureSymbols}

\* roundToStepFloor(qty, stepSize), and roundToStepFloor of what it returned
ApplyRoundToStepFloor ==
  /\ call.fn = "roundToStepFloor" /\ ~call.done
  /\ LET r == roundToStepFloor(call.qty, call.stepSize)
     IN  call' = [call EXCEPT !.done = TRUE, !.result = r,
                              !.again = roundToStepFloor(r, call.stepSize)]
  /\ UNCHANGED <<precisionCache, disk, flow, calls>>

ApplyEnsureMinNotional ==
  /\ call.fn = "ensureMinNotional" /\ ~call.done
  /\ call' = [call EXCEPT !.done = TRUE,
                          !.result = ensureMinNotional(call.qty, call.price,
                                                       call.minNotional, call.stepSize)]
  /\ UNCHANGED <<precisionCache, disk, flow, calls>>

ApplyQtyFromNotional ==
  /\ call.fn = "qtyFromNotional" /\ ~call.done
  /\ call' = [call EXCEPT !.done = TRUE,
                          !.result = qtyFromNotional(call.notionalUsd, call.price,
                                                     call.stepSize, call.minNotional)]
  /\ UNCHANGED <<precisionCache, disk, flow, calls>>

ApplyGetPrecision ==
  /\ call.fn = "getPrecision" /\ ~call.done
  /\ call' = [call EXCEPT !.done = TRUE,
                          !.precision = getPrecision(precisionCache, call.symbol)]
  /\ UNCHANGED <<precisionCache, disk, flow, calls>>

\* the four lookups of the registry for one symbol, and the quantity
\* normalized with what they return: by getSmartQuantity (result) and by
\* roundToStepFloor at the registry's step size (again)
ApplyLookup ==
  /\ call.fn = "lookup" /\ ~call.done
  /\ call' = [call EXCEPT !.done = TRUE,
                          !.info = getStepSizeInfo(call.symbol),
                          !.precision = getPrecisionFromDatabase(call.symbol),
                          !.stepSizeOut = getStepSizeFromDatabase(call.symbol),
                          !.known = isSymbolInDatabase(call.symbol),
                          !.result = getSmartQuantity(precisionCache, call.symbol, call.qty),
                          !.again = roundToStepFloor(call.qty,
                                                     getStepSizeFromDatabase(call.symbol))]
  /\ UNCHANGED <<precisionCache, disk, flow, calls>>

ApplyDetectPrecision ==
  /\ call.fn = "detectPrecisionFromExchangeInfo" /\ ~call.done
  /\ call' = [call EXCEPT !.done = TRUE,
                          !.precision = detectPrecisionFromExchangeInfo(call.exchangeInfo,
                                                                        call.symbol)]
  /\ UNCHANGED <<precisionCache, disk, flow, calls>>

\* roundQuantity(qty, precision) (result) and roundToStepFloor of the same
\* quantity at the step size 10^-precision (again)
ApplyRoundQuantity ==
  /\ call.fn = "roundQuantity" /\ ~call.done
  /\ call' = [call EXCEPT !.done = TRUE,
                          !.result = roundQuantity(call.qty, call.precision),
                          !.again = roundToStepFloor(call.qty, call.stepSize)]
  /\ UNCHANGED <<precisionCache, disk, flow, calls>>

NextPure ==
  \/ ApplyDetectPrecision
  \/ ApplyRoundToStepFloor
  \/ ApplyEnsureMinNotional
  \/ ApplyQtyFromNotional
  \/ ApplyGetPrecision
  \/ ApplyLookup
  \/ ApplyRoundQuantity

SpecPure == InitPure /\ [][NextPure]_vars

\* ------------------------------------------------------------------------
\* Properties
\* ------------------------------------------------------------------------

SMART  == "placeMarketOrderSmart"
LADDER == "handlePrecisionError"

\* the submissions a flow issued from inside handlePrecisionError
LadderSubs(r) == {i \in 1..Len(r.subs) : r.subs[i].phase = "ladder"}

\* no submission of the flow has succeeded
NoSuccess(r) == \A i \in 1..Len(r.replies) : r.replies[i] /= "ok"

\* x is the floating point value of a multiple of 10^-p: with n the integer
\* part of x * 10^p, x is the number n / 10^p or (n + 1) / 10^p
IsMultipleOfStep(x, p) ==
  LET num == x[1] * Pow10(p)
      n   == IF x[2] >= 0 THEN num * Pow2(x[2]) ELSE num \div Pow2(-x[2])
  IN  x = Num(n, p) \/ x = Num(n + 1, p)

\* C1: one invocation of handlePrecisionError whose start precision is p0
\* calls the trade function at most p0 + 1 times, whatever the submissions
\* resolve with (also for the ladder placeMarketOrderSmart enters).
C1_LadderBound ==
  \A f \in AllFlows :
    LET r == flow[f]
    IN  /\ Cardinality(LadderSubs(r)) <= r.startPrecision + 1
        /\ r.op = LADDER => r.startPrecision = r.p0 /\ Len(r.subs) <= r.p0 + 1

\* a ladder started at 3 that has used all 4 attempts and is exhausted
C1_Witness ==
  \E f \in AllFlows :
    /\ flow[f].op = LADDER /\ flow[f].pc = "thrown"
    /\ flow[f].p0 = 3 /\ Len(flow[f].subs) = 4
    /\ flow[f].result.shape = "AllFailed"

\* C2: in one placeMarketOrderSmart invocation the submitted precisions are
\* strictly decreasing (none is submitted twice) and there are at most
\* p0 + 1 submissions, p0 being getPrecision(symbol) at entry.
C2_SmartStrictlyDecreasing ==
  \A f \in AllFlows :
    LET r == flow[f]
    IN  r.op = SMART =>
          /\ \A i, j \in 1..Len(r.subs) :
               i < j => r.subs[i].precision > r.subs[j].precision
          /\ Len(r.subs) <= r.p0 + 1

\* C3: after a ladder has succeeded at precision p (0 included), getPrecision
\* of the symbol returns p.
C3_LearnedPrecisionIsReturned ==
  \A f \in AllFlows :
    LET r == flow[f]
    IN  (r.op = LADDER /\ r.pc = "returned") =>
          getPrecision(precisionCache, r.symbol) = r.precision

\* C4: a ladder started at p0 that is rejected for precision at p0, ..., k+1
\* and succeeds at k has made exactly p0 - k + 1 submissions, at p0, p0-1,
\* ..., k, has written k for the symbol to the cache and the file by one
\* setPrecision call, and returns the result of the successful submission.
C4_LadderSuccess ==
  \A f \in AllFlows :
    LET r == flow[f]
        k == r.precision
    IN  (r.op = LADDER /\ r.pc = "returned") =>
          /\ Len(r.subs) = r.p0 - k + 1
          /\ \A i \in 1..Len(r.subs) : r.subs[i].precision = r.p0 - i + 1
          /\ \A i \in 1..(Len(r.subs) - 1) : r.replies[i] = "precision"
          /\ r.replies[Len(r.subs)] = "ok"
          /\ r.symbol \in DOMAIN precisionCache /\ precisionCache[r.symbol] = k
          /\ r.symbol \in DOMAIN disk /\ disk[r.symbol] = k
          /\ Len(r.writes) = 1 /\ r.writes[1].precision = k
          /\ r.result = [type |-> "value", shape |-> "order",
                         from |-> Len(r.subs), cause |-> 0]

\* scenario E: started at 3, rejected at 3, 2 and 1, succeeded at 0
C4_Witness ==
  \E f \in AllFlows :
    /\ flow[f].op = LADDER /\ flow[f].pc = "returned"
    /\ flow[f].p0 = 3 /\ flow[f].precision = 0 /\ Len(flow[f].subs) = 4
    /\ precisionCache[flow[f].symbol] = 0

\* C5: every value stored in the precision cache and every value getPrecision
\* returns is an integer in [0, 4].
C5_PrecisionRange ==
  /\ \A s \in DOMAIN precisionCache : precisionCache[s] \in 0..4
  /\ \A f \in AllFlows :
       /\ flow[f].p0 \in 0..4
       /\ flow[f].startPrecision \in 0..4
       /\ \A s \in Symbols : getPrecision(precisionCache, s) \in 0..4

\* C6: every quantity passed to a submission at precision p, for a requested
\* quantity q, is a multiple of 10^-p and is <= q.
C6_SubmittedQuantity ==
  \A f \in AllFlows :
    LET r == flow[f]
    IN  \A i \in 1..Len(r.subs) :
          /\ IsMultipleOfStep(r.subs[i].quantity, r.subs[i].precision)
          /\ FlLeq(r.subs[i].quantity, r.quantity)

\* C7: in placeMarketOrderSmart, when a submission fails with an error that
\* is not the precision-exceeded error, that error reaches the caller
\* unmodified and no submission is issued after it.
C7_OtherErrorReachesCaller ==
  \A f \in AllFlows :
    LET r == flow[f]
    IN  r.op = SMART =>
          \A i \in 1..Len(r.replies) :
            r.replies[i] \notin {"ok", "precision"} =>
              /\ Len(r.subs) = i
              /\ r.pc = "thrown"
              /\ r.result = [type |-> "error", shape |-> r.replies[i],
                             from |-> i, cause |-> 0]

\* C8 as stated: each attempt is one submission, and an invocation in which
\* no submission succeeds leaves the cache and the file as they were at entry.
C8_OnlySuccessChangesCache ==
  \A f \in AllFlows :
    LET r == flow[f]
    IN  r.op /= "none" =>
          /\ Len(r.replies) <= Len(r.subs) /\ Len(r.subs) <= Len(r.replies) + 1
          /\ NoSuccess(r) => <<precisionCache, disk>> = r.entry

\* C8 amended: each attempt is one submission; a flow calls setPrecision only
\* after a ladder submission that succeeded (with the precision of that
\* submission) or in the live metadata detection pass of
\* placeMarketOrderSmart; an invocation in which no submission succeeds and no
\* detection pass has written leaves the cache and the file as at entry.
C8_CacheChangesBySuccessOrDetection ==
  \A f \in AllFlows :
    LET r == flow[f]
        IsDetectionWrite(i) ==
          /\ r.op = SMART /\ i = 1 /\ r.fetches = 1
          /\ r.writes[i].after = 1 /\ r.replies[1] = "precision"
        IsSuccessWrite(i) ==
          LET a == r.writes[i].after
          IN  /\ i = Len(r.writes) /\ a = Len(r.subs) /\ a >= 1
              /\ r.replies[a] = "ok" /\ r.subs[a].phase = "ladder"
              /\ r.writes[i].precision = r.subs[a].precision
    IN  r.op /= "none" =>
          /\ Len(r.replies) <= Len(r.subs) /\ Len(r.subs) <= Len(r.replies) + 1
          /\ \A i \in 1..Len(r.writes) : IsDetectionWrite(i) \/ IsSuccessWrite(i)
          /\ r.writes = <<>> => <<precisionCache, disk>> = r.entry
          /\ (NoSuccess(r) /\ r.op = LADDER) => r.writes = <<>>
          /\ (NoSuccess(r) /\ r.fetches = 0) => r.writes = <<>>

\* a placeMarketOrderSmart invocation that ended without any successful
\* submission, whose detection pass changed the cache
C8_Witness ==
  \E f \in AllFlows :
    /\ flow[f].op = SMART /\ flow[f].pc = "thrown" /\ NoSuccess(flow[f])
    /\ Len(flow[f].writes) = 1
    /\ <<precisionCache, disk>> /= flow[f].entry

\* C9: a ladder rejected for precision at every precision down to 0 throws
\* an aggregate error that carries the error of the last submission.
C9_AggregateWrapsLastError ==
  \A f \in AllFlows :
    LET r == flow[f]
    IN  (r.pc = "thrown" /\ r.result.shape = "AllFailed") =>
          /\ r.precision = 0 /\ r.replies[Len(r.replies)] = "precision"
          /\ r.result.cause = Len(r.replies)

\* C10: when the write of the cache to the file fails during setPrecision, no
\* error propagates: the cache in memory holds the new value, and a ladder
\* whose submission succeeded still returns that submission's result.
C10_SaveFailureSwallowed ==
  \A f \in AllFlows :
    LET r == flow[f]
    IN  \A i \in 1..Len(r.writes) :
          ~r.writes[i].written =>
            /\ i = Len(r.writes) =>
                  /\ r.symbol \in DOMAIN precisionCache
                  /\ precisionCache[r.symbol] = r.writes[i].precision
            /\ r.pc = "thrown" =>
                  /\ r.result.shape \in DiskOutcomes \cup {"AllFailed"}
                  /\ r.replies[Len(r.replies)] /= "ok"
            /\ r.replies[r.writes[i].after] = "ok" =>
                  /\ r.pc = "returned"
                  /\ r.result = [type |-> "value", shape |-> "order",
                                 from |-> r.writes[i].after, cause |-> 0]

\* a ladder that succeeded at a lower precision while the file could not be
\* written: the caller has the result, the cache has the precision, the
\* file does not
C10_Witness ==
  \E f \in AllFlows :
    LET r == flow[f]
    IN  /\ r.op = LADDER /\ r.pc = "returned" /\ Len(r.subs) >= 2
        /\ ~r.writes[1].written
        /\ precisionCache[r.symbol] = r.precision
        /\ r.symbol \notin DOMAIN disk

\* C11: getPrecision(symbol) returns the first hit of the chain: the cache
\* entry of the symbol whenever one exists, else the registry entry's
\* precision, else the value of the substring rules (2 when none matches).
\* Checked on the getPrecision call every invocation makes at entry.
C11_FallbackChain ==
  \A f \in AllFlows :
    LET r     == flow[f]
        cache == r.entry[1]
    IN  r.op /= "none" =>
          r.p0 = IF r.symbol \in DOMAIN cache THEN cache[r.symbol]
                 ELSE IF isSymbolInDatabase(r.symbol)
                      THEN getPrecisionFromDatabase(r.symbol)
                 ELSE PatternPrecision(r.symbol)

\* C12: for a symbol with no cache entry and no registry entry, getPrecision
\* returns the precision of the first rule, in the order {BTC, ETH} -> 3,
\* {ASTER, SOL, BNB} -> 2, {XRP} -> 1, {ADA, DOGE, AVAX} -> 0, that has a
\* substring occurring in the uppercased symbol, and 2 when no rule has; for
\* a symbol with a registry entry and no cache entry it returns the registry
\* precision whatever the rules would give.
C12_ClassifierOrder ==
  LET Rules == << [subs |-> {<<"B","T","C">>, <<"E","T","H">>}, p |-> 3],
                  [subs |-> {<<"A","S","T","E","R">>, <<"S","O","L">>, <<"B","N","B">>}, p |-> 2],
                  [subs |-> {<<"X","R","P">>}, p |-> 1],
                  [subs |-> {<<"A","D","A">>, <<"D","O","G","E">>, <<"A","V","A","X">>}, p |-> 0] >>
      upper == toUpperCase(call.symbol)
      first == FirstIndex({i \in 1..Len(Rules) : \E t \in Rules[i].subs : includes(upper, t)})
      entry == DatabaseIndex(upper)
  IN  (call.fn = "getPrecision" /\ call.done /\ call.symbol \notin DOMAIN precisionCache) =>
        IF entry = {}
        THEN call.precision = IF first = 0 THEN 2 ELSE Rules[first].p
        ELSE \A i \in entry : call.precision = STEP_SIZE_DATABASE[i].precision

\* getPrecision("xrpbtc") on a cache without it: XRP and BTC both occur, the
\* BTC rule comes first
C12_Witness ==
  /\ call.fn = "getPrecision" /\ call.done
  /\ call.symbol = <<"x","r","p","b","t","c">>
  /\ call.symbol \notin DOMAIN precisionCache
  /\ call.precision = 3

\* C13: the four registry lookups give, for every upper/lower-case variant
\* of a symbol, the answer they give for the symbol; for DOGEUSDT (in any
\* case) the entry has precision 0 and step size "1", and the quantity 7.8
\* normalizes to 7, by getSmartQuantity and by roundToStepFloor at the
\* registry's step size.
C13_LookupCaseInsensitive ==
  (call.fn = "lookup" /\ call.done) =>
    /\ \A v \in CaseVariants(call.symbol) :
         /\ getStepSizeInfo(v) = call.info
         /\ getPrecisionFromDatabase(v) = call.precision
         /\ getStepSizeFromDatabase(v) = call.stepSizeOut
         /\ isSymbolInDatabase(v) = call.known
    /\ toUpperCase(call.symbol) = DOGEUSDT =>
         /\ call.known /\ Cardinality(call.info) = 1
         /\ \A e \in call.info : e.precision = 0 /\ e.stepSize = <<"1">>
         /\ call.precision = 0 /\ call.stepSizeOut = <<"1">>
         /\ call.qty = Num(78, 1) => call.result = Num(7, 0) /\ call.again = Num(7, 0)

\* the lookups of "dogeUSDT" found the DOGEUSDT entry, and 7.8 became 7
C13_Witness ==
  /\ call.fn = "lookup" /\ call.done
  /\ call.symbol = <<"d","o","g","e","U","S","D","T">>
  /\ call.known /\ call.precision = 0 /\ call.stepSizeOut = <<"1">>
  /\ call.qty = Num(78, 1) /\ call.result = Num(7, 0) /\ call.again = Num(7, 0)

\* x is the floating point value of a multiple of the step n / 10^d: with k
\* the integer part of x / (n / 10^d), x is the number k * n / 10^d or
\* (k + 1) * n / 10^d
IsMultipleOf(x, n, d) ==
  LET t == x[1] * Pow10(d)
      k == IF x[2] >= 0 THEN (t * Pow2(x[2])) \div n ELSE t \div (n * Pow2(-x[2]))
  IN  x = Num(k * n, d) \/ x = Num((k + 1) * n, d)

\* C14: for a quantity qty >= 0 and a step size > 0, a power of ten or not,
\* roundToStepFloor(qty, stepSize) is at most qty and is a multiple of the
\* step size; roundToStepFloor(1.23456, "0.001") is 1.234.
C14_FloorToStep ==
  LET s == parseFloat(call.stepSize)
  IN  (call.fn = "roundToStepFloor" /\ call.done /\ s.n > 0) =>
        /\ FlLeq(call.result, call.qty)
        /\ IsMultipleOf(call.result, s.n, s.d)
        /\ (call.qty = Num(123456, 5) /\ call.stepSize = <<"0",".","0","0","1">>) =>
              call.result = Num(1234, 3)

\* C15: roundToStepFloor is idempotent: for a quantity qty >= 0 and any step
\* size (the invalid ones included), roundToStepFloor applied to what
\* roundToStepFloor(qty, stepSize) returned gives the same value again.
C15_FloorIdempotent ==
  (call.fn = "roundToStepFloor" /\ call.done) => call.again = call.result

\* C16: ensureMinNotional(qty, price, minNotional, stepSize) returns qty when
\* minNotional <= 0 (or is missing) or when the product qty * price is at
\* least minNotional, the tie included, and otherwise returns
\* roundToStepFloor(minNotional / price, stepSize); product and quotient are
\* the floating point ones.
C16_EnsureMinNotional ==
  LET mn == parseFloat(call.minNotional)
  IN  (call.fn = "ensureMinNotional" /\ call.done) =>
        IF mn.n <= 0 \/ FlLeq(StringNum(call.minNotional), FlMul(call.qty, call.price))
        THEN call.result = call.qty
        ELSE call.result = roundToStepFloor(FlDiv(StringNum(call.minNotional), call.price),
                                            call.stepSize)

\* the tie 2 * 2.5 = 5 against the minimum "5" returned 2
C16_Witness ==
  /\ call.fn = "ensureMinNotional" /\ call.done
  /\ call.qty = Num(2, 0) /\ call.price = Num(25, 1) /\ call.minNotional = <<"5">>
  /\ FlMul(call.qty, call.price) = StringNum(call.minNotional)
  /\ call.result = call.qty

\* C17 as stated: ensureMinNotional(0.0001, 50000, "5", "0.001") returns 0.001.
C17_ScenarioB_AsStated ==
  (/\ call.fn = "ensureMinNotional" /\ call.done
   /\ call.qty = Num(1, 4) /\ call.price = Num(50000, 0)
   /\ call.minNotional = <<"5">> /\ call.stepSize = <<"0",".","0","0","1">>) =>
    call.result = Num(1, 3)

\* C17 amended: 0.0001 * 50000 is 5, a tie with the minimum "5", and
\* ensureMinNotional(0.0001, 50000, "5", "0.001") returns the quantity 0.0001
\* unchanged, not floored or raised to the step.
C17_ScenarioB_ReturnsQty ==
  (/\ call.fn = "ensureMinNotional" /\ call.done
   /\ call.qty = Num(1, 4) /\ call.price = Num(50000, 0)
   /\ call.minNotional = <<"5">> /\ call.stepSize = <<"0",".","0","0","1">>) =>
    /\ FlMul(call.qty, call.price) = Num(5, 0)
    /\ call.result = Num(1, 4)

\* the call of scenario B has returned, with a quantity below one step
C17_Witness ==
  /\ call.fn = "ensureMinNotional" /\ call.done
  /\ call.qty = Num(1, 4) /\ call.price = Num(50000, 0)
  /\ call.minNotional = <<"5">> /\ call.stepSize = <<"0",".","0","0","1">>
  /\ FlLess(call.result, Num(1, 3))

\* the integer value of the floating point value a (a whole number)
IntegerOf(a) == IF a[2] >= 0 THEN a[1] * Pow2(a[2]) ELSE a[1] \div Pow2(-a[2])

\* C18: for qty >= 0, price > 0, minNotional > 0 and a step size > 0, the
\* quantity ensureMinNotional returns meets the minimum notional: times the
\* price it is at least minNotional.
C18_MeetsMinNotional ==
  (/\ call.fn = "ensureMinNotional" /\ call.done
   /\ IsPositive(call.price)
   /\ parseFloat(call.minNotional).n > 0 /\ parseFloat(call.stepSize).n > 0) =>
    FlLeq(StringNum(call.minNotional), FlMul(call.result, call.price))

\* C19: for notional > 0 and price > 0, qtyFromNotional returns a quantity of
\* at least 0.00000001, and when minNotional / price is an exact multiple of
\* the step size the returned quantity times the price is at least
\* minNotional.
C19_QtyMeetsMinNotional ==
  LET m == parseFloat(call.minNotional)
      s == parseFloat(call.stepSize)
      \* (m.n / 10^m.d) / price = k * (s.n / 10^s.d) for an integer k
      exact == (m.n * Pow10(s.d)) % (IntegerOf(call.price) * s.n * Pow10(m.d)) = 0
  IN  (/\ call.fn = "qtyFromNotional" /\ call.done
       /\ IsPositive(call.notionalUsd) /\ IsPositive(call.price)) =>
        /\ FlLeq(MinQuantity, call.result)
        /\ exact => FlLeq(StringNum(call.minNotional), FlMul(call.result, call.price))

\* C20: qtyFromNotional returns 0 when price <= 0 and otherwise the larger of
\* 0.00000001 and roundToStepFloor(ensureMinNotional(notional / price, price,
\* minNotional, stepSize), stepSize); qtyFromNotional(1000, 50000, "0.001",
\* "5") is 0.02.
C20_QtyFromNotional ==
  (call.fn = "qtyFromNotional" /\ call.done) =>
    /\ IF ~IsPositive(call.price) THEN call.result = FlZero
       ELSE LET q == ensureMinNotional(FlDiv(call.notionalUsd, call.price), call.price,
                                       call.minNotional, call.stepSize)
                r == roundToStepFloor(q, call.stepSize)
            IN  call.result = IF FlLeq(MinQuantity, r) THEN r ELSE MinQuantity
    /\ (/\ call.notionalUsd = Num(1000, 0) /\ call.price = Num(50000, 0)
        /\ call.stepSize = <<"0",".","0","0","1">> /\ call.minNotional = <<"5">>) =>
         call.result = Num(2, 2)

\* scenario C: qtyFromNotional(1000, 50000, "0.001", "5") has returned 0.02
C20_Witness ==
  /\ call.fn = "qtyFromNotional" /\ call.done
  /\ call.notionalUsd = Num(1000, 0) /\ call.price = Num(50000, 0)
  /\ call.stepSize = <<"0",".","0","0","1">> /\ call.minNotional = <<"5">>
  /\ call.result = Num(2, 2)

\* the filters of the entry detectPrecisionFromExchangeInfo finds for the
\* symbol of the call, <<>> when the snapshot has no entry for it
EntryFilters ==
  LET syms == call.exchangeInfo.symbols
      i == FirstIndex({k \in 1..Len(syms) : syms[k].symbol = call.symbol})
  IN  IF i = 0 THEN <<>> ELSE syms[i].filters

\* the step size of the filters of that type that have one
StepSizesOf(type) ==
  {EntryFilters[k].stepSize : k \in {j \in 1..Len(EntryFilters) :
      EntryFilters[j].filterType = type /\ EntryFilters[j].stepSize /= <<>>}}

\* C21 as stated: detectPrecisionFromExchangeInfo returns 3 when the snapshot
\* has no entry for the symbol or the entry has neither a MARKET_LOT_SIZE nor
\* a LOT_SIZE step size; otherwise the result is max(0, round(-log10(s))) of
\* the MARKET_LOT_SIZE step size s when there is one and of the LOT_SIZE step
\* size when there is not, which is a number only for s > 0.
C21_DetectedPrecision_AsStated ==
  (call.fn = "detectPrecisionFromExchangeInfo" /\ call.done) =>
    LET chosen == IF StepSizesOf("MARKET_LOT_SIZE") /= {} THEN StepSizesOf("MARKET_LOT_SIZE")
                  ELSE StepSizesOf("LOT_SIZE")
    IN  IF chosen = {} THEN call.precision = 3
        ELSE \A t \in chosen :
               LET s == parseFloat(t)
               IN  s.n > 0 /\ call.precision = Max(0, RoundNegLog10(s.n, s.d))

\* C21 amended: as above, and the result is also 3 when the step size chosen
\* is not a positive number: a MARKET_LOT_SIZE step size "0" is still chosen
\* before a LOT_SIZE step size.
C21_DetectedPrecision ==
  (call.fn = "detectPrecisionFromExchangeInfo" /\ call.done) =>
    LET chosen == IF StepSizesOf("MARKET_LOT_SIZE") /= {} THEN StepSizesOf("MARKET_LOT_SIZE")
                  ELSE StepSizesOf("LOT_SIZE")
    IN  IF chosen = {} THEN call.precision = 3
        ELSE \A t \in chosen :
               LET s == parseFloat(t)
               IN  call.precision = IF s.n > 0 THEN Max(0, RoundNegLog10(s.n, s.d)) ELSE 3

\* a snapshot whose BTCUSDT entry has LOT_SIZE "1" before MARKET_LOT_SIZE
\* "0.001": the detected precision is 3, that of the MARKET_LOT_SIZE step size
C21_Witness ==
  /\ call.fn = "detectPrecisionFromExchangeInfo" /\ call.done
  /\ StepSizesOf("LOT_SIZE") = {<<"1">>}
  /\ StepSizesOf("MARKET_LOT_SIZE") = {<<"0",".","0","0","1">>}
  /\ EntryFilters[1].filterType = "LOT_SIZE"
  /\ call.precision = 3

\* C22: in placeMarketOrderSmart, once the first submission was rejected for
\* precision and the live metadata pass is over, either the submission at the
\* detected precision succeeded and its result was returned, or the ladder
\* was run (it has made a submission); an error the caller gets comes from
\* the ladder, never from the metadata fetch, the detection or the
\* submission at the detected precision.
C22_DetectionFailureEntersLadder ==
  \A f \in AllFlows :
    LET r == flow[f]
    IN  (/\ r.op = SMART /\ Len(r.replies) >= 1 /\ r.replies[1] = "precision"
         /\ r.pc \notin {"fetch", "detected"}) =>
          /\ \/ /\ Len(r.subs) = 2 /\ r.subs[2].phase = "detected"
                /\ r.replies[2] = "ok" /\ r.pc = "returned"
             \/ LadderSubs(r) /= {}
          /\ r.pc = "thrown" =>
               \/ r.result.shape = "AllFailed" /\ LadderSubs(r) /= {}
               \/ /\ r.result.from \in LadderSubs(r)
                  /\ r.result.shape = r.replies[r.result.from]

\* a flow whose metadata fetch failed (no submission at a detected precision
\* was made) and whose ladder then succeeded
C22_Witness ==
  \E f \in AllFlows :
    LET r == flow[f]
    IN  /\ r.op = SMART /\ r.pc = "returned" /\ r.fetches = 1
        /\ \A i \in 1..Len(r.subs) : r.subs[i].phase /= "detected"
        /\ LadderSubs(r) /= {}

\* C23: after the live metadata detection pass of placeMarketOrderSmart has
\* returned the precision d (0 included), the next submission is made at d,
\* with the requested quantity floored to d decimal places, and a ladder that
\* follows starts at d.
C23_DetectedPrecisionIsUsed ==
  \A f \in AllFlows :
    LET r == flow[f]
    IN  (/\ r.op = SMART /\ Len(r.subs) >= 2 /\ r.subs[2].phase = "detected"
         /\ Len(r.writes) >= 1) =>
          LET d == r.writes[1].precision
          IN  /\ r.subs[2].precision = d
              /\ r.subs[2].quantity = roundQuantity(r.quantity, d)
              /\ LadderSubs(r) /= {} =>
                   /\ r.startPrecision = d
                   /\ r.subs[3].phase = "ladder" /\ r.subs[3].precision = d

\* the snapshot has no entry for the symbol, or the entry has no
\* MARKET_LOT_SIZE or LOT_SIZE filter with a step size
StepSizeAbsent(info, symbol) ==
  LET i == FirstIndex({k \in 1..Len(info.symbols) : info.symbols[k].symbol = symbol})
  IN  i = 0 \/ \A k \in 1..Len(info.symbols[i].filters) :
                 LET flt == info.symbols[i].filters[k]
                 IN  flt.filterType \notin {"MARKET_LOT_SIZE", "LOT_SIZE"} \/ flt.stepSize = <<>>

\* C24: a step of a flow changes the cache or the file only if it is a
\* ladder submission resolving with success or a live metadata detection
\* that found the step size of the symbol; a detection pass on a snapshot
\* without the symbol or without its step size leaves cache and file as they
\* are.
C24_FailedDetectionWritesNothing ==
  [][\A f \in AllFlows :
       /\ \A info \in AllExchangeInfos :
            (/\ ExchangeInfoResolves(f, info, TRUE)
             /\ info.ok /\ ~info.null /\ StepSizeAbsent(info, flow[f].symbol)) =>
              UNCHANGED <<precisionCache, disk>>
       /\ (flow'[f] /= flow[f] /\ <<precisionCache, disk>>' /= <<precisionCache, disk>>) =>
            \/ LadderResolves(f, "ok", TRUE)
            \/ \E info \in AllExchangeInfos : ExchangeInfoResolves(f, info, TRUE)]_vars

\* C25: a write of setPrecision that succeeds puts the entire cache into the
\* file; a restart reading the file yields the cache as it was at the last
\* write that succeeded; a restart that finds no file or cannot read it
\* yields the empty cache; the construction never fails.
C25_PersistenceRoundTrip ==
  /\ (call.fn = "setPrecision" /\ call.known) => disk = precisionCache
  /\ call.fn = "setPrecision" =>
       /\ call.symbol \in DOMAIN precisionCache
       /\ precisionCache[call.symbol] = call.precision
  /\ call.fn = "restart" =>
       /\ precisionCache = IF call.known THEN call.cache ELSE <<>>
       /\ disk = call.cache

\* a restart after two setPrecision calls for one symbol, the second with a
\* write that succeeded: the new process has the value of the second call
C25_Witness ==
  /\ call.fn = "restart" /\ call.known /\ calls >= 2
  /\ call.symbol \in DOMAIN precisionCache /\ Cardinality(DOMAIN precisionCache) = 1
  /\ precisionCache[call.symbol] = call.precision

\* C26: a flow has at most one submission that has not resolved, and it has
\* one exactly while it is suspended at the await of a submission: a
\* submission is issued only after the one before it has resolved, also when
\* two flows are interleaved.
C26_OneOutstandingSubmission ==
  \A f \in AllFlows :
    LET r == flow[f]
    IN  /\ Len(r.replies) <= Len(r.subs)
        /\ Len(r.subs) <= Len(r.replies) + 1
        /\ (Len(r.subs) = Len(r.replies) + 1) <=> (r.pc \in {"first", "detected", "ladder"})

\* two interleaved flows, each waiting for a submission, one of them for its
\* third
C26_Witness ==
  /\ flow[1].pc = "ladder" /\ flow[2].pc = "ladder"
  /\ Len(flow[1].subs) = 3 /\ Len(flow[1].replies) = 2
  /\ Len(flow[2].subs) = Len(flow[2].replies) + 1

\* C27: when every submission and every metadata fetch eventually resolves,
\* every invocation of placeMarketOrderSmart or handlePrecisionError that has
\* started eventually ends: it returns a result or throws.
C27_EveryFlowTerminates ==
  (flow[1].pc \in Awaiting) ~> (flow[1].pc \in {"returned", "thrown"})

C27_Witness ==
  LET r == flow[1]
  IN  /\ r.pc = "thrown" /\ r.result.shape = "AllFailed"
      /\ r.symbol \in DOMAIN r.entry[1]
      /\ r.startPrecision = r.entry[1][r.symbol] /\ r.startPrecision >= 2

\* flow f executes a setPrecision call in this step
Wrote(f) == Len(flow'[f].writes) > Len(flow[f].writes)

LastWrite(r) == r.writes[Len(r.writes)].precision

\* C28: on the shared cache the last setPrecision call wins. A step in which a
\* flow calls setPrecision leaves its precision in the entry of its symbol and
\* every other entry as it was, and a step without a call leaves the cache as it
\* was; so when both flows have finished for the same symbol after writing, the
\* entry is what one of them wrote last.
C28_LastWriteWins ==
  /\ [](\A s \in TwoSymbols :
         (\A f \in AllFlows : /\ flow[f].pc = "returned" /\ flow[f].symbol = s
                               /\ flow[f].writes /= <<>>)
         => /\ s \in DOMAIN precisionCache
            /\ \E f \in AllFlows : precisionCache[s] = LastWrite(flow[f]))
  /\ [][/\ \A f \in AllFlows :
            Wrote(f) => /\ flow[f].symbol \in DOMAIN precisionCache'
                        /\ precisionCache'[flow[f].symbol] = LastWrite(flow'[f])
        /\ \A s \in DOMAIN precisionCache :
            (~ \E f \in AllFlows : Wrote(f) /\ flow[f].symbol = s)
            => /\ s \in DOMAIN precisionCache'
               /\ precisionCache'[s] = precisionCache[s]
        /\ \A s \in DOMAIN precisionCache' \ DOMAIN precisionCache :
            \E f \in AllFlows : Wrote(f) /\ flow[f].symbol = s]_vars

\* both flows finished for the same symbol after writing different precisions,
\* and the entry of the symbol is what flow 2 wrote, not what flow 1 wrote
C28_Witness ==
  /\ \A f \in AllFlows : flow[f].pc = "returned" /\ flow[f].symbol = BTCUSDT
                          /\ flow[f].writes /= <<>>
  /\ LastWrite(flow[1]) /= LastWrite(flow[2])
  /\ precisionCache[BTCUSDT] = LastWrite(flow[2])

\* C29: every step changes the entry of at most one symbol, the one setPrecision
\* is called for (the symbol of the flow when a flow makes the call), leaves
\* every other entry as it was, and removes no entry.
C29_OnlyThatEntry ==
  [][/\ DOMAIN precisionCache \subseteq DOMAIN precisionCache'
     /\ \E s \in Symbols :
          /\ DOMAIN precisionCache' \subseteq DOMAIN precisionCache \cup {s}
          /\ \A t \in DOMAIN precisionCache \ {s} : precisionCache'[t] = precisionCache[t]
          /\ Wrote(1) => s = flow[1].symbol]_vars

\* a finished flow that called setPrecision while the cache held an entry of
\* another symbol, which is still what it was
C29_Witness ==
  LET r == flow[1]
  IN  /\ r.pc = "returned" /\ r.writes /= <<>>
      /\ precisionCache[r.symbol] = LastWrite(r)
      /\ \E t \in DOMAIN r.entry[1] :
           t /= r.symbol /\ precisionCache[t] = r.entry[1][t]

\* the error of a submission that makes the loop of handlePrecisionError go on
LadderContinues(outcome) ==
  /\ outcome /= "ok"
  /\ ~ConditionThrows(ErrorShapes[outcome])
  /\ IsPrecisionError(ErrorShapes[outcome])

\* C30: an invocation of handlePrecisionError submits first at
\* getPrecision(symbol) as of its call; a submission that fails with the
\* precision error at a precision above 0 is followed by one at exactly one
\* less, and nothing else is followed by a submission; the submission a ladder
\* has just made (each one, in the state after it) carries the requested
\* quantity rounded to its precision.
C30_LadderSteps ==
  \A f \in AllFlows :
    LET r == flow[f]
        n == Len(r.subs)
    IN  /\ r.op = LADDER =>
             /\ n >= 1
             /\ r.subs[1].precision = getPrecision(r.entry[1], r.symbol)
             /\ \A i \in 1..Len(r.replies) :
                  (LadderContinues(r.replies[i]) /\ r.subs[i].precision > 0)
                  <=> n > i
        /\ (n >= 1 /\ r.subs[n].phase = "ladder") =>
             /\ r.subs[n].quantity = roundQuantity(r.quantity, r.subs[n].precision)
             /\ (n >= 2 /\ r.subs[n - 1].phase = "ladder")
                => r.subs[n].precision = r.subs[n - 1].precision - 1

\* a second attempt whose quantity is not what rounding the first attempt's
\* quantity would give
C30_Witness ==
  LET r == flow[1]
  IN  /\ r.op = LADDER /\ Len(r.subs) >= 2
      /\ r.subs[2].quantity /= roundQuantity(r.subs[1].quantity, r.subs[2].precision)

\* C31: for every quantity qty >= 0 and every precision p in 0..4,
\* roundQuantity(qty, p) and roundToStepFloor(qty, 10^-p) are the same number.
C31_SameQuantization ==
  (call.fn = "roundQuantity" /\ call.done) => call.result = call.again

\* C32: in handlePrecisionError a failed attempt is followed by another one
\* exactly when its error has code -1111 and a message containing the
\* precision text and the precision is above 0; after any other error shape
\* the caller gets that very error, nothing more is submitted and the cache is
\* as it was at the call.
C32_OnlyPrecisionErrorRetries ==
  LET r == flow[1]
  IN  r.op = LADDER =>
        \A i \in 1..Len(r.replies) :
          r.replies[i] /= "ok" =>
            LET e == ErrorShapes[r.replies[i]]
                precisionExceeded ==
                  e.code = -1111 /\ e.hasMsg /\ MsgIncludesPrecisionText(e.msg)
            IN  /\ Len(r.subs) > i <=> (precisionExceeded /\ r.subs[i].precision > 0)
                /\ ~precisionExceeded =>
                     /\ r.pc = "thrown"
                     /\ r.result.type = "error" /\ r.result.shape = r.replies[i]
                     /\ r.writes = <<>>
                     /\ precisionCache = r.entry[1]

\* C33: every entry of STEP_SIZE_DATABASE has a precision in 0..4 that is the
\* number of decimal digits of its step size, max(0, round(-log10(stepSize))),
\* and a lookup made at any time answers with the entry as the registry holds
\* it and with that precision.
C33_RegistryPrecision ==
  /\ \A i \in 1..Len(STEP_SIZE_DATABASE) :
       LET e == STEP_SIZE_DATABASE[i]
       IN  /\ e.precision \in 0..4
           /\ parseFloat(e.stepSize).n > 0
           /\ e.precision = calculatePrecisionFromStepSize(e.stepSize)
  /\ (call.fn = "lookup" /\ call.done /\ call.known) =>
       /\ \E i \in 1..Len(STEP_SIZE_DATABASE) : call.info = {STEP_SIZE_DATABASE[i]}
       /\ call.precision \in 0..4
       /\ call.precision = calculatePrecisionFromStepSize(call.stepSizeOut)

\* the lookups of a DOTUSDT variant answered with precision 0 for the step
\* size "1"
C33_Witness ==
  /\ call.fn = "lookup" /\ call.done /\ call.known
  /\ toUpperCase(call.symbol) = DOTUSDT /\ call.symbol /= DOTUSDT
  /\ call.precision = 0 /\ call.stepSizeOut = <<"1">>

\* C34: a placeMarketOrderSmart invocation whose first submission succeeded
\* has returned that submission's result after one submission, without a
\* metadata fetch and without a setPrecision call; the cache and the file are
\* as they were at the call.
C34_FirstSuccessIsOneSubmission ==
  LET r == flow[1]
  IN  (r.op = SMART /\ r.replies /= <<>> /\ r.replies[1] = "ok") =>
        /\ r.pc = "returned" /\ r.result.type = "value" /\ r.result.from = 1
        /\ Len(r.subs) = 1 /\ Len(r.replies) = 1
        /\ r.fetches = 0 /\ r.writes = <<>>
        /\ precisionCache = r.entry[1] /\ disk = r.entry[2]

\* an invocation that succeeded at once, at the precision the cache held for
\* its symbol
C34_Witness ==
  LET r == flow[1]
  IN  /\ r.op = SMART /\ r.pc = "returned" /\ r.replies = <<"ok">>
      /\ r.symbol \in DOMAIN precisionCache
      /\ r.subs[1].precision = precisionCache[r.symbol]
      /\ r.subs[1].precision /= getPrecision(<<>>, r.symbol)

\* C35: once setPrecision has stored a precision for a symbol, getPrecision
\* returns it for the symbol written in any mix of upper and lower case.
C35_LearnedCaseInsensitive ==
  (call.fn = "getPrecision" /\ call.done) =>
    \A s \in DOMAIN precisionCache :
      toUpperCase(s) = toUpperCase(call.symbol) => call.precision = precisionCache[s]

\* C36: the precision the cache holds for a symbol never increases: no step
\* of any interleaving of the flows replaces an entry by a larger one.
C36_LearnedNeverIncreases ==
  [][\A s \in DOMAIN precisionCache :
       s \in DOMAIN precisionCache' /\ precisionCache'[s] <= precisionCache[s]]_vars

\* C37: a ladder attempts the precisions startPrecision, startPrecision - 1,
\* ... in this order, startPrecision being what getPrecision returned when
\* the ladder started, whatever the other flow writes to the cache meanwhile.
C37_LadderIgnoresLaterWrites ==
  \A f \in AllFlows :
    LET r     == flow[f]
        first == Len(r.subs) - Cardinality(LadderSubs(r)) + 1
    IN  /\ \A i \in LadderSubs(r) :
             i >= first /\ r.subs[i].precision = r.startPrecision - (i - first)
        /\ r.op = LADDER => r.startPrecision = getPrecision(r.entry[1], r.symbol)

\* flow 1's ladder started at 3 on a cache without an entry for its symbol
\* and is suspended on its attempt at 1, after flow 2 has stored 1 for the
\* same symbol
C37_Witness ==
  /\ flow[1].op = LADDER /\ flow[1].pc = "ladder"
  /\ flow[1].symbol \notin DOMAIN flow[1].entry[1]
  /\ flow[1].startPrecision = 3 /\ Len(flow[1].subs) = 3
  /\ flow[2].symbol = flow[1].symbol /\ flow[2].writes /= <<>>
  /\ flow[2].pc \notin {"idle", "returned", "thrown"}
  /\ precisionCache[flow[1].symbol] = 1

\* C38: when two processes share the file and each has stored a precision for
\* a symbol the other has not, the file holds both entries, in whatever order
\* the two wrote.
C38_SharedFileKeepsBoth ==
  (/\ call.fn = "instance" /\ call.done
   /\ precisionCache /= <<>>
   /\ call.symbol \notin DOMAIN precisionCache) =>
    /\ call.symbol \in DOMAIN disk /\ disk[call.symbol] = call.precision
    /\ \A s \in DOMAIN precisionCache : s \in DOMAIN disk /\ disk[s] = precisionCache[s]

\* C39: for a notional > 0, a price > 0 and a step size > 0, what
\* qtyFromNotional returns is a multiple of the step size (0.00000001 is a
\* multiple of none of the step sizes of the calls, which are 0.001 and 0.1).
C39_QtyIsMultipleOfStep ==
  LET s == parseFloat(call.stepSize)
  IN  (/\ call.fn = "qtyFromNotional" /\ call.done
       /\ IsPositive(call.notionalUsd) /\ IsPositive(call.price) /\ s.n > 0) =>
        /\ call.result /= MinQuantity
        /\ IsMultipleOf(call.result, s.n, s.d)

TypeOK ==
  /\ \A s \in DOMAIN precisionCache : precisionCache[s] \in Nat
  /\ \A f \in AllFlows : Len(flow[f].replies) <= Len(flow[f].subs)

=============================================================================
